---- MODULE Spec2Model ----
(***************************************************************************)
(* Verification model of cryptopix-clwe: the ColorValue wrapper, the       *)
(* SHAKE-like samplers, the ColorKEM (keygen / encapsulate / decapsulate,  *)
(* key and ciphertext serialisation, verify_keypair), the NTT engines,     *)
(* two threads sharing rand(), CLWEParameters / RingOperations             *)
(* (construction, message encoding and decoding), one sampler object       *)
(* driven call by call, the engine factory, Montgomery reduction, and      *)
(* AVXPolynomial objects (arithmetic and buffer ownership).                *)
(* Every operator is a transcription of the C++ it names; widths of the    *)
(* C++ integer types are kept (uint8_t, uint32_t, uint64_t).               *)
(***************************************************************************)
EXTENDS Integers, Sequences, FiniteSets, TLC

(***************************************************************************)
(* Bounds of the model (not program constants).                            *)
(***************************************************************************)
\* number of 32-byte values rand() may deliver as a sampler seed
NumSeeds == 2
\* number of 32-byte values std::random_device may deliver as matrix seed
NumMatrixSeeds == 1
\* number of keygen() calls in one run
MaxKeygen == 2
\* number of polynomials a caller of an NTT engine may pass
NumPolys == 4
\* number of consecutive rand() calls a thread makes between two scheduling points
RandBurst == 16
\* number of 32-byte messages a caller may hand to encode_message_to_poly
NumMessages == 8
\* number of calls made on one sampler object
MaxSamplerOps == 4
\* number of nested calls the stack of a thread holds
MaxCallDepth == 3
\* number of AVXPolynomial variables in scope
NumObjects == 3
\* number of calls made on the AVXPolynomial variables
MaxPolyOps == 4
\* number of arithmetic calls made on loaded polynomials
MaxArithmeticOps == 2

(***************************************************************************)
(* Byte-level helpers (uint8_t arithmetic).                                *)
(***************************************************************************)
Byte == 0..255

\* a ^ b on the low `bits` bits, one bit at a time
RECURSIVE BitXor(_, _, _)
BitXor(a, b, bits) ==
    IF bits = 0 THEN 0
    ELSE ((a + b) % 2) + 2 * BitXor(a \div 2, b \div 2, bits - 1)

\* a ^ b on uint8_t
BitXor8(a, b) == BitXor(a, b, 8)

\* (value << s) | (value >> (8 - s)) stored back into a uint8_t
RotL8(v, s) == ((v * (2^s)) % 256) + (v \div (2^(8 - s)))

(***************************************************************************)
(* CLWEParameters (clwe.hpp).                                              *)
(***************************************************************************)
Levels == {128, 192, 256}

CLWEParameters(sec_level) ==
    LET dflt == [security_level |-> sec_level, degree |-> 256, module_rank |-> 2,
                 modulus |-> 3329, eta |-> 2, beta |-> 120]
    IN CASE sec_level = 128 -> [dflt EXCEPT !.degree = 256, !.module_rank = 2,
                                 !.modulus = 3329, !.eta = 2, !.beta = 120]
         [] sec_level = 192 -> [dflt EXCEPT !.degree = 256, !.module_rank = 3,
                                 !.modulus = 3329, !.eta = 2, !.beta = 200]
         [] sec_level = 256 -> [dflt EXCEPT !.degree = 256, !.module_rank = 4,
                                 !.modulus = 3329, !.eta = 2, !.beta = 280]
         [] OTHER -> dflt

\* the default argument of the constructor: CLWEParameters(uint32_t sec_level = 128)
DefaultParameters == CLWEParameters(128)

(***************************************************************************)
(* ColorValue (color_value.hpp).                                           *)
(***************************************************************************)
ColorValue(red, green, blue, alpha) == [r |-> red, g |-> green, b |-> blue, a |-> alpha]

\* (r << 32) | (g << 16) | b   -- the three fields occupy disjoint bits
to_precise_value(c) == c.r * 65536 * 65536 + c.g * 65536 + c.b

\* ((value >> 32) & 0xFF, (value >> 16) & 0xFF, value & 0xFF, 255)
from_precise_value(value) ==
    ColorValue(((value \div 65536) \div 65536) % 256,
               (value \div 65536) % 256,
               value % 256,
               255)

\* (r << 24) | (g << 16) | (b << 8) | a, as the four bytes of the uint32_t
to_math_value_bytes(c) == <<c.r, c.g, c.b, c.a>>

\* ((value >> 24) & 0xFF, (value >> 16) & 0xFF, (value >> 8) & 0xFF, value & 0xFF)
from_math_value(value) ==
    ColorValue((value \div 16777216) % 256,
               (value \div 65536) % 256,
               (value \div 256) % 256,
               value % 256)

(***************************************************************************)
(* SHAKE128Sampler / SHAKE256Sampler (shake_sampler.cpp).                  *)
(* A sampler is [state : Seq(Byte), position : Nat].                       *)
(***************************************************************************)
SHAKE128_init(seed) == [state |-> seed, position |-> 0]

\* one iteration of the loop body of SHAKE128Sampler::squeeze, at offset pos
SHAKE128_byte(state, pos) ==
    LET state_idx == pos % Len(state)
        counter   == pos \div Len(state)
        v1 == BitXor8(state[state_idx + 1], counter % 256)
        v2 == BitXor8(v1, (counter \div 256) % 256)
        v3 == RotL8(v2, 5)
    IN BitXor8(v3, state[((state_idx + 1) % Len(state)) + 1])

\* squeeze(out, len): the bytes written and the sampler afterwards
SHAKE128_squeeze(s, len) ==
    [out |-> [i \in 1..len |-> SHAKE128_byte(s.state, s.position + i - 1)],
     sampler |-> [s EXCEPT !.position = s.position + len]]

\* SHAKE256Sampler(): state_.resize(32); init(seed): reset, copy, fill the rest
SHAKE256_init(seed) ==
    LET copy_len == IF Len(seed) < 32 THEN Len(seed) ELSE 32
    IN [state |-> [i \in 1..32 |->
                     IF i <= copy_len THEN seed[i]
                     ELSE (seed[((i - 1) % Len(seed)) + 1] + (i - 1)) % 256],
        position |-> 0]

SHAKE256_byte(state, pos) ==
    LET state_idx == pos % Len(state)
        counter   == pos \div Len(state)
        v1 == BitXor8(state[state_idx + 1], counter % 256)
        v2 == BitXor8(v1, (counter \div 256) % 256)
        v3 == BitXor8(v2, (counter \div 65536) % 256)
        v4 == BitXor8(v3, (counter \div 16777216) % 256)
        v5 == RotL8(v4, 3)
    IN BitXor8(v5, state[((state_idx + 1) % Len(state)) + 1])

SHAKE256_squeeze(s, len) ==
    [out |-> [i \in 1..len |-> SHAKE256_byte(s.state, s.position + i - 1)],
     sampler |-> [s EXCEPT !.position = s.position + len]]

\* sample_binomial_coefficient(eta): eta rounds, two one-byte squeezes each,
\* every byte contributing +1 or -1 by its low bit
RECURSIVE binomial_rounds(_, _, _)
binomial_rounds(s, rounds, result) ==
    IF rounds = 0 THEN [result |-> result, sampler |-> s]
    ELSE LET a == SHAKE256_byte(s.state, s.position)
             b == SHAKE256_byte(s.state, s.position + 1)
             d1 == IF a % 2 = 1 THEN 1 ELSE -1
             d2 == IF b % 2 = 1 THEN 1 ELSE -1
         IN binomial_rounds([s EXCEPT !.position = s.position + 2], rounds - 1,
                            result + d1 + d2)

sample_binomial_coefficient(s, eta) == binomial_rounds(s, eta, 0)

\* SHAKE128Sampler(): state_() and reset(); SHAKE256Sampler(): state_.resize(32)
SHAKE128Sampler == [state |-> <<>>, position |-> 0]
SHAKE256Sampler == [state |-> [i \in 1..32 |-> 0], position |-> 0]

\* reset(): state_.clear() / std::fill(state_, 0), and position_ = 0
SHAKE128_reset(s) == [state |-> <<>>, position |-> 0]
SHAKE256_reset(s) == [state |-> [i \in 1..Len(s.state) |-> 0], position |-> 0]

\* init(seed) without its first statement reset(): position_ keeps its value
SHAKE128_init_keeping_position(s, seed) == [state |-> seed, position |-> s.position]

\* init(seed) on an object that has been used: reset(), resize, memcpy
SHAKE128_init_on(s, seed) ==
    LET cleared == SHAKE128_reset(s)
    IN [state |-> cleared.state \o seed, position |-> cleared.position]

\* init(seed) on an object that has been used: reset(), memcpy of copy_len bytes,
\* the remaining bytes from the pattern
SHAKE256_init_on(s, seed) ==
    LET zeroed == SHAKE256_reset(s)
        size == Len(zeroed.state)
        copy_len == IF Len(seed) < size THEN Len(seed) ELSE size
    IN [state |-> [i \in 1..size |->
                     IF i <= copy_len THEN seed[i]
                     ELSE (seed[((i - 1) % Len(seed)) + 1] + (i - 1)) % 256],
        position |-> zeroed.position]

\* 32 - __builtin_clz(v) for v > 0: the number of bits of v
RECURSIVE bit_length(_)
bit_length(v) == IF v = 0 THEN 0 ELSE 1 + bit_length(v \div 2)

\* mask = (1U << (32 - __builtin_clz(modulus - 1))) - 1, for 1 < modulus <= 2^16
uniform_mask(modulus) == 2 ^ bit_length(modulus - 1) - 1

\* squeeze(bytes, 4) that leaves position_ where it was
SHAKE256_squeeze_in_place(s, len) ==
    [out |-> [i \in 1..len |-> SHAKE256_byte(s.state, s.position + i - 1)],
     sampler |-> s]

\* the squeeze of sample_uniform
uniform_squeeze(s, len) == SHAKE256_squeeze(s, len)

\* one iteration of while (true) in sample_uniform: squeeze 4 bytes, assemble them
\* big-endian, sample &= mask.  mask is below 2^16, so bytes[0] and bytes[1] are
\* masked away.
sample_uniform_step(s, modulus) ==
    LET squeezed == uniform_squeeze(s, 4)
        bytes == squeezed.out
        sample == (bytes[3] * 256 + bytes[4]) % (uniform_mask(modulus) + 1)
    IN [sample |-> sample, returns |-> sample < modulus, sampler |-> squeezed.sampler]

(***************************************************************************)
(* Values the entropy sources may deliver.  rand() % 256 and               *)
(* std::random_device fill 32-byte arrays; the model draws them from a     *)
(* small family of byte patterns  seed[i] = (a*i + b) mod 256.             *)
(***************************************************************************)
SeedOf(p) == [i \in 1..32 |-> (p[1] * (i - 1) + p[2]) % 256]

RandSeedParams == << <<4, 4>>, <<11, 0>>, <<0, 1>>, <<0, 0>>, <<1, 0>> >>
MatrixSeedParams == << <<0, 0>>, <<1, 0>>, <<33, 1>> >>

\* std::generate(seed.begin(), seed.end(), []() { return rand() % 256; })
RandSeeds == {SeedOf(RandSeedParams[i]) : i \in 1..NumSeeds}
\* std::generate(matrix_seed.begin(), ..., [&rd]() { return rd() % 256; })
MatrixSeeds == {SeedOf(MatrixSeedParams[i]) : i \in 1..NumMatrixSeeds}
\* rand() % 2
RandBits == {0, 1}

(***************************************************************************)
(* ColorKEM private helpers (color_kem.cpp).                               *)
(***************************************************************************)
\* static_cast<uint32_t>(x) for a 64-bit x
U32(v) == v - ((v \div 65536) \div 65536) * 65536 * 65536

\* C++ operator % on a signed left operand (truncation towards zero)
CRem(a, m) == IF a >= 0 THEN a % m ELSE -((-a) % m)

\* (sample % static_cast<int32_t>(modulus) + modulus) % modulus
binomial_to_modulus(sample, modulus) == (CRem(sample, modulus) + modulus) % modulus

\* The rejection loop of generate_matrix_A for one entry.  Block t (t = 1, 2, ...)
\* is the t-th 3-byte squeeze; it offers the candidates coeff1 and coeff2 in this
\* order, and the loop stores the candidates below q, in order, until n are stored.
matrix_candidates(state, blocks) ==
    [c \in 1..(2 * blocks) |->
        LET pos == 3 * ((c - 1) \div 2)
            b0 == SHAKE128_byte(state, pos)
            b1 == SHAKE128_byte(state, pos + 1)
            b2 == SHAKE128_byte(state, pos + 2)
        IN IF c % 2 = 1 THEN (b0 * 16 + (b1 \div 16)) % 4096     \* coeff1
                        ELSE (b1 * 256 + b2) % 4096]             \* coeff2

matrix_accepted(state, blocks, q) ==
    LET below_q(v) == v < q
    IN SelectSeq(matrix_candidates(state, blocks) \o <<>>, below_q)

\* one iteration of while (coeff_idx < n): a 3-byte squeeze, coeff1 and coeff2,
\* each stored at coeffs[coeff_idx++] if it is below q and coeff_idx < n
matrix_loop_step(s, coeffs, n, q) ==
    LET squeezed == SHAKE128_squeeze(s, 3)
        bytes == squeezed.out
        coeff1 == (bytes[1] * 16 + (bytes[2] \div 16)) % 4096
        coeff2 == (bytes[2] * 256 + bytes[3]) % 4096
        after1 == IF coeff1 < q /\ Len(coeffs) < n THEN Append(coeffs, coeff1) ELSE coeffs
        after2 == IF coeff2 < q /\ Len(after1) < n THEN Append(after1, coeff2) ELSE after1
    IN [coeffs |-> after2, sampler |-> squeezed.sampler]

\* while (coeff_idx < n): squeeze further blocks
RECURSIVE matrix_rejection_loop(_, _, _, _)
matrix_rejection_loop(state, blocks, n, q) ==
    LET coeffs == matrix_accepted(state, blocks, q)
    IN IF Len(coeffs) >= n
       THEN SubSeq(coeffs, 1, n)
       ELSE matrix_rejection_loop(state, blocks + 32, n, q)

\* for (coeff = 0; coeff < n; ++coeff) matrix[i][j] = from_precise_value(coeffs[coeff]);
\* every iteration overwrites the same entry, which keeps the last value assigned
matrix_entry_assign(coeffs, n) ==
    LET assigned == [coeff \in 1..n |-> from_precise_value(coeffs[coeff])]
    IN assigned[n]

expand_matrix_A(seed, params) ==
    LET k == params.module_rank
    IN [i \in 1..k |-> [j \in 1..k |->
          LET shake_input == seed \o <<i - 1, j - 1>>
              shake128 == SHAKE128_init(shake_input)
              coeffs == matrix_rejection_loop(shake128.state, params.degree \div 2,
                                              params.degree, params.modulus)
          IN matrix_entry_assign(coeffs, params.degree)]]

\* the matrices of the seeds and levels of the model, expanded once
MatrixATable ==
    [lvl \in Levels |-> [seed \in MatrixSeeds |-> expand_matrix_A(seed, CLWEParameters(lvl))]]

generate_matrix_A(seed, params) ==
    IF params.security_level \in Levels /\ seed \in MatrixSeeds
    THEN MatrixATable[params.security_level][seed]
    ELSE expand_matrix_A(seed, params)

\* the loop shared by generate_secret_key and generate_error_vector
RECURSIVE binomial_vector(_, _, _, _)
binomial_vector(sampler, count, params, acc) ==
    IF count = 0 THEN acc
    ELSE LET smp == sample_binomial_coefficient(sampler, params.eta)
             value == binomial_to_modulus(smp.result, params.modulus)
         IN binomial_vector(smp.sampler, count - 1, params,
                            Append(acc, from_precise_value(value)))

\* sampler.init(seed) followed by the sampling loop
sample_vector(seed, params) ==
    binomial_vector(SHAKE256_init(seed), params.module_rank, params, <<>>)

\* the vectors of the seeds and levels of the model, sampled once
SampleVectorTable ==
    [lvl \in Levels |-> [seed \in RandSeeds |-> sample_vector(seed, CLWEParameters(lvl))]]

\* seed is the array rand() filled
generate_error_vector(seed, params) ==
    IF params.security_level \in Levels /\ seed \in RandSeeds
    THEN SampleVectorTable[params.security_level][seed]
    ELSE sample_vector(seed, params)

generate_secret_key(seed, params) ==
    IF params.security_level \in Levels /\ seed \in RandSeeds
    THEN SampleVectorTable[params.security_level][seed]
    ELSE sample_vector(seed, params)

\* x[i] of a std::vector; an index past the end reads whatever lies there
At(x, i, junk) == IF i <= Len(x) THEN x[i] ELSE junk

\* for (j = 0; j < k; ++j) sum = (sum + x[j].to_precise_value() * y[j].to_precise_value()) % q
RECURSIVE sum_mod_q(_, _, _, _, _, _, _)
sum_mod_q(x, y, k, j, sum, q, junk) ==
    IF j > k THEN sum
    ELSE sum_mod_q(x, y, k, j + 1,
                   (sum + to_precise_value(At(x, j, junk)) * to_precise_value(At(y, j, junk))) % q,
                   q, junk)

matrix_vector_mul(matrix, vector, params) ==
    [i \in 1..params.module_rank |->
        from_precise_value(sum_mod_q(matrix[i], vector, params.module_rank, 1, 0,
                                     params.modulus, ColorValue(0, 0, 0, 255)))]

matrix_transpose_vector_mul(matrix, vector, params) ==
    [i \in 1..params.module_rank |->
        from_precise_value(sum_mod_q([j \in 1..params.module_rank |-> matrix[j][i]],
                                     vector, params.module_rank, 1, 0,
                                     params.modulus, ColorValue(0, 0, 0, 255)))]

generate_public_key(secret_key, matrix_A, error_vector, params) ==
    LET As == matrix_vector_mul(matrix_A, secret_key, params)
    IN [i \in 1..params.module_rank |->
          from_precise_value((to_precise_value(As[i]) + to_precise_value(error_vector[i]))
                             % params.modulus)]

\* big-endian bytes of static_cast<uint32_t>(secret.to_precise_value())
color_secret_to_bytes(secret) ==
    LET value == U32(to_precise_value(secret))
    IN << (value \div 16777216) % 256, (value \div 65536) % 256,
          (value \div 256) % 256, value % 256 >>

bytes_to_color_secret(bytes) ==
    IF Len(bytes) < 4 THEN from_precise_value(0)
    ELSE from_precise_value(bytes[1] * 16777216 + bytes[2] * 65536 + bytes[3] * 256 + bytes[4])

\* variant: the four bytes in little-endian order
encode_color_secret_le(secret) ==
    LET value == U32(to_precise_value(secret))
    IN << value % 256, (value \div 256) % 256, (value \div 65536) % 256,
          (value \div 16777216) % 256 >>

encode_color_secret(secret) == color_secret_to_bytes(secret)

RECURSIVE colors_to_bytes(_, _, _)
colors_to_bytes(colors, i, data) ==
    IF i > Len(colors) THEN data
    ELSE colors_to_bytes(colors, i + 1, data \o color_secret_to_bytes(colors[i]))

\* for (i = 0; i < data.size(); i += 4) push_back(bytes_to_color_secret(data[i, min(i+4, size))))
bytes_to_colors(data) ==
    [c \in 1..((Len(data) + 3) \div 4) |->
        bytes_to_color_secret(SubSeq(data, 4 * (c - 1) + 1,
                                     IF 4 * c < Len(data) THEN 4 * c ELSE Len(data)))]

\* encrypt_message; r_seed, e1_seed, e2_seed are the three arrays rand() fills
\* inside generate_secret_key() and the two generate_error_vector() calls
encrypt_message(matrix_A, public_key, message, params, r_seed, e1_seed, e2_seed) ==
    LET k == params.module_rank
        q == params.modulus
        r_vector == generate_secret_key(r_seed, params)
        e1_vector == generate_error_vector(e1_seed, params)
        e2 == generate_error_vector(e2_seed, params)[1]
        inner_product == sum_mod_q(public_key, r_vector, k, 1, 0, q, ColorValue(0, 0, 0, 255))
        q_fourth == q \div 4
        encoded_m == to_precise_value(message) * q_fourth
        c2_val == (inner_product + to_precise_value(e2) + encoded_m) % q
    IN [i \in 1..(k + 1) |->
          IF i <= k
          THEN from_precise_value((to_precise_value(r_vector[i]) + to_precise_value(e1_vector[i])) % q)
          ELSE from_precise_value(c2_val)]

\* decrypt_message; junk is what a read past the end of a vector delivers
decrypt_message(secret_key, ciphertext, params, junk) ==
    LET k == params.module_rank
        q == params.modulus
        c1 == [i \in 1..k |-> At(ciphertext, i, junk)]
        c2 == At(ciphertext, k + 1, junk)
        s_dot_c1 == sum_mod_q(secret_key, c1, k, 1, 0, q, junk)
        c2_val == to_precise_value(c2)
        v == (IF c2_val >= s_dot_c1 THEN c2_val - s_dot_c1 ELSE c2_val + q - s_dot_c1) % q
        q_half == q \div 2
        m == IF v > q_half THEN 1 ELSE 0
    IN from_precise_value(m)

\* the outcomes of the two conditionals decrypt_message evaluates, in order:
\* (c2_val >= s_dot_c1) ? ... : ...   and   (v > q_half) ? 1 : 0
decrypt_message_branches(secret_key, ciphertext, params, junk) ==
    LET k == params.module_rank
        q == params.modulus
        c1 == [i \in 1..k |-> At(ciphertext, i, junk)]
        s_dot_c1 == sum_mod_q(secret_key, c1, k, 1, 0, q, junk)
        c2_val == to_precise_value(At(ciphertext, k + 1, junk))
        v == (IF c2_val >= s_dot_c1 THEN c2_val - s_dot_c1 ELSE c2_val + q - s_dot_c1) % q
    IN << c2_val >= s_dot_c1, v > q \div 2 >>

\* TRUE iff decrypt_message indexes past the end of one of its two vectors
decrypt_reads_out_of_range(secret_key, ciphertext, params) ==
    Len(ciphertext) < params.module_rank + 1 \/ Len(secret_key) < params.module_rank

(***************************************************************************)
(* ColorKEM public interface.                                              *)
(***************************************************************************)
\* auto matrix_A = generate_matrix_A(matrix_seed); in keygen
keygen_matrix_A(params, matrix_seed) == generate_matrix_A(matrix_seed, params)

\* variant: the matrix is expanded under the default parameter set
encapsulate_matrix_A_default(params, public_key) ==
    generate_matrix_A(public_key.seed, DefaultParameters)

\* auto matrix_A = generate_matrix_A(public_key.seed); in encapsulate
encapsulate_matrix_A(params, public_key) == generate_matrix_A(public_key.seed, params)

keygen(params, matrix_seed, secret_seed, error_seed) ==
    LET matrix_A == keygen_matrix_A(params, matrix_seed)
        secret_key_colors == generate_secret_key(secret_seed, params)
        error_vector == generate_error_vector(error_seed, params)
        public_key_colors == generate_public_key(secret_key_colors, matrix_A, error_vector, params)
    IN [public_key |-> [seed |-> matrix_seed,
                        public_data |-> colors_to_bytes(public_key_colors, 1, <<>>),
                        params |-> params],
        private_key |-> [secret_data |-> colors_to_bytes(secret_key_colors, 1, <<>>),
                         params |-> params]]

encapsulate(params, public_key, bit, r_seed, e1_seed, e2_seed) ==
    LET shared_secret == from_precise_value(bit)
        matrix_A == encapsulate_matrix_A(params, public_key)
        public_key_colors == bytes_to_colors(public_key.public_data)
        ciphertext_colors == encrypt_message(matrix_A, public_key_colors, shared_secret,
                                             params, r_seed, e1_seed, e2_seed)
    IN [ciphertext |-> [ciphertext_data |-> colors_to_bytes(ciphertext_colors, 1, <<>>),
                        shared_secret_hint |-> encode_color_secret(shared_secret),
                        params |-> params],
        shared_secret |-> shared_secret]

\* variant: the value is read from the hint the ciphertext carries
decapsulate_from_hint(params, public_key, private_key, ciphertext, junk) ==
    bytes_to_color_secret(ciphertext.shared_secret_hint)

decapsulate(params, public_key, private_key, ciphertext, junk) ==
    decrypt_message(bytes_to_colors(private_key.secret_data),
                    bytes_to_colors(ciphertext.ciphertext_data), params, junk)

\* ~ColorPrivateKey() is the implicit destructor: std::vector releases its buffer
\* with the bytes it holds; the result is the content of the buffer when released
ColorPrivateKey_destroy(key) == key.secret_data

verify_keypair(public_key, private_key) ==
    /\ public_key.params.security_level = private_key.params.security_level
    /\ public_key.params.modulus = private_key.params.modulus

(***************************************************************************)
(* Serialisation of keys and ciphertexts.                                  *)
(***************************************************************************)
ColorPublicKey_serialize(key) == key.seed \o key.public_data

\* a deserialize that starts public_data one byte late
ColorPublicKey_deserialize_late(data, uninit) ==
    IF Len(data) >= 32
    THEN [seed |-> SubSeq(data, 1, 32), public_data |-> SubSeq(data, 34, Len(data)),
          params |-> DefaultParameters]
    ELSE [seed |-> uninit, public_data |-> <<>>, params |-> DefaultParameters]

\* uninit is the content of the never-assigned seed array of `ColorPublicKey key;`
ColorPublicKey_deserialize(data, uninit) ==
    IF Len(data) >= 32
    THEN [seed |-> SubSeq(data, 1, 32), public_data |-> SubSeq(data, 33, Len(data)),
          params |-> DefaultParameters]
    ELSE [seed |-> uninit, public_data |-> <<>>, params |-> DefaultParameters]

ColorPrivateKey_serialize(key) == key.secret_data

ColorPrivateKey_deserialize(data) == [secret_data |-> data, params |-> DefaultParameters]

ColorCiphertext_serialize(ct) == ct.ciphertext_data \o ct.shared_secret_hint

ColorCiphertext_deserialize(data) ==
    LET split == Len(data) \div 2
    IN [ciphertext_data |-> SubSeq(data, 1, split),
        shared_secret_hint |-> SubSeq(data, split + 1, Len(data)),
        params |-> DefaultParameters]

(***************************************************************************)
(* uint32_t and uint64_t arithmetic.  A value is a little-endian sequence  *)
(* of 16-bit limbs: two limbs for uint32_t, four for uint64_t; every       *)
(* operation wraps at the width of its operands.                           *)
(***************************************************************************)
W32(v) == <<v % 65536, v \div 65536>>

\* static_cast<uint64_t>(x) of a uint32_t x
W64(x) == x \o <<0, 0>>

RECURSIVE carry_limbs(_, _, _)
carry_limbs(limbs, i, carry) ==
    IF i > Len(limbs) THEN <<>>
    ELSE <<(limbs[i] + carry) % 65536>>
         \o carry_limbs(limbs, i + 1, (limbs[i] + carry) \div 65536)

\* x + y, x - y, and x * c for a factor c below 2^15
W_add(x, y) == carry_limbs([i \in 1..Len(x) |-> x[i] + y[i]], 1, 0)
W_sub(x, y) == carry_limbs([i \in 1..Len(x) |-> x[i] + (65535 - y[i])], 1, 1)
W_mul_small(x, c) == carry_limbs([i \in 1..Len(x) |-> x[i] * c], 1, 0)

\* x >= y and x % q on uint32_t
W32_geq(x, y) == x[2] > y[2] \/ (x[2] = y[2] /\ x[1] >= y[1])
W32_mod(x, q) == ((x[2] % q) * 65536 + x[1]) % q

\* static_cast<uint64_t>(a) * b for uint32_t a, b: b is taken byte by byte
W64_mul_step(acc, a, byte) == W_add(W_mul_small(acc, 256), W_mul_small(W64(a), byte))
W64_mul(a, b) ==
    W64_mul_step(W64_mul_step(W64_mul_step(W64_mul_step(<<0, 0, 0, 0>>,
        a, b[2] \div 256), a, b[2] % 256), a, b[1] \div 256), a, b[1] % 256)

(***************************************************************************)
(* utils.cpp: mod_pow and mod_inverse.                                     *)
(***************************************************************************)
RECURSIVE mod_pow_loop(_, _, _, _)
mod_pow_loop(result, base, exp, mod) ==
    IF exp = 0 THEN result
    ELSE mod_pow_loop(IF exp % 2 = 1 THEN (result * base) % mod ELSE result,
                      (base * base) % mod, exp \div 2, mod)

mod_pow(base, exp, mod) == mod_pow_loop(1, base % mod, exp, mod)

\* while (a > 1) { q = a / m; t = m; m = a % m; a = t; t = x0; x0 = x1 - q * x0; x1 = t; }
RECURSIVE mod_inverse_loop(_, _, _, _)
mod_inverse_loop(a, m, x0, x1) ==
    IF a <= 1 THEN x1
    ELSE mod_inverse_loop(m, a % m, x1 - (a \div m) * x0, x0)

mod_inverse(a, m) ==
    IF m = 1 THEN 0
    ELSE LET x1 == mod_inverse_loop(a, m, 0, 1)
         IN IF x1 < 0 THEN x1 + m ELSE x1

(***************************************************************************)
(* The NTT engines.  An engine is the record of the fields its constructor *)
(* computes; kind is "scalar", "avx" or "color".                           *)
(***************************************************************************)
\* zetas[0] = 1; zetas[i] = (uint64_t(zetas[i-1]) * zeta) % q, i.e. zeta^i mod q
precompute_zetas(zeta, q, n) == SubSeq([i \in 1..n |-> mod_pow(zeta, i - 1, q)], 1, n)

\* uint32_t g = 17 (scalar), 3 (AVX), (q_ == 3329) ? 17 : 3 (color)
generator(kind, q) ==
    CASE kind = "scalar" -> 17
      [] kind = "avx"    -> 3
      [] OTHER           -> IF q = 3329 THEN 17 ELSE 3

\* (1ULL << 32) % q_
montgomery_r(q) == ((65536 % q) * 65536) % q

NTTEngine(kind, q, n) ==
    LET zeta == mod_pow(generator(kind, q), (q - 1) \div n, q)
    IN [kind |-> kind, q |-> q, n |-> n,
        zetas |-> precompute_zetas(zeta, q, n),
        zetas_inv |-> precompute_zetas(mod_inverse(zeta, q), q, n),
        montgomery_r_inv |-> mod_inverse(montgomery_r(q), q),
        n_inv |-> mod_inverse(n, q)]

\* ScalarNTTEngine::montgomery_reduce and AVXNTTEngine::montgomery_reduce (same body)
montgomery_reduce(e, val) ==
    LET t == W_mul_small(val, e.montgomery_r_inv)
        k == <<t[1], t[2]>>
        res == W_sub(val, W_mul_small(W64(k), e.q))
    IN <<res[3], res[4]>>

\* x % q on uint64_t
W64_mod(x, q) ==
    ((((W32_mod(<<x[3], x[4]>>, q) * 65536 + x[2]) % q) * 65536) + x[1]) % q

\* utils.hpp montgomery_reduce(a, q): t = a * (1 << 32) % q;  return (a + t * q) >> 32;
utils_montgomery_reduce(a, q) ==
    LET t == W64_mod(<<0, 0, a[1], a[2]>>, q)
        sum == W_add(a, W_mul_small(W64(W32(t)), q))
    IN <<sum[3], sum[4]>>

\* uint32_t diff = (a >= b) ? (a - b) : (a + q_ - b);
wrapping_diff(a, b, q) ==
    IF W32_geq(a, b) THEN W_sub(a, b) ELSE W_sub(W_add(a, W32(q)), b)

\* ScalarNTTEngine::butterfly: the pair (a, b) after the call
butterfly(e, a, b, zeta) ==
    << W32(W32_mod(W_add(a, b), e.q)),
       montgomery_reduce(e, W_mul_small(W64(wrapping_diff(a, b, e.q)), zeta)) >>

\* AVXNTTEngine::butterfly_avx on one lane; uint64_t(diff) * zeta does not wrap,
\* so its remainder is ((diff % q) * zeta) % q
butterfly_avx(e, a, b, zeta) ==
    << W32(W32_mod(W_add(a, b), e.q)),
       W32((W32_mod(wrapping_diff(a, b, e.q), e.q) * zeta) % e.q) >>

color_add_precise(a, b, modulus) ==
    from_precise_value((to_precise_value(a) + to_precise_value(b)) % modulus)

color_subtract_precise(a, b, modulus) ==
    LET a_val == to_precise_value(a)
        b_val == to_precise_value(b)
        diff == IF a_val >= b_val THEN a_val - b_val ELSE a_val + modulus - b_val
    IN from_precise_value(diff % modulus)

color_multiply_precise(a, b, modulus) ==
    from_precise_value((to_precise_value(a) * to_precise_value(b)) % modulus)

\* ColorNTTEngine::color_butterfly; zeta is color_zetas_[j] = from_math_value(zetas[j])
color_butterfly(e, a, b, zeta) ==
    << color_add_precise(a, b, e.q),
       color_multiply_precise(color_subtract_precise(a, b, e.q), from_math_value(zeta), e.q) >>

engine_butterfly(e, a, b, zeta) ==
    CASE e.kind = "scalar" -> butterfly(e, a, b, zeta)
      [] e.kind = "avx"    -> butterfly_avx(e, a, b, zeta)
      [] OTHER             -> color_butterfly(e, a, b, zeta)

\* for (i = 0; i < k; ++i) { butterfly(poly[i], poly[i + k], zetas[j]); j += m; }
\* The k butterflies of one stage act on disjoint pairs.  width is the number of
\* 32-bit words of one element of poly: 1, or 8 for an __m256i.
butterfly_stage(e, poly, k, m, zetas, width) ==
    SubSeq([w \in 1..Len(poly) |->
              LET i == (w - 1) \div width
              IN IF i < k
                 THEN engine_butterfly(e, poly[w], poly[w + k * width], zetas[i * m + 1])[1]
                 ELSE IF i < 2 * k
                 THEN engine_butterfly(e, poly[w - k * width], poly[w],
                                       zetas[(i - k) * m + 1])[2]
                 ELSE poly[w]],
           1, Len(poly))

\* m = 1, k = n/2; per stage: m *= 2, k /= 2
RECURSIVE forward_stages(_, _, _, _, _)
forward_stages(e, poly, k, m, width) ==
    IF k = 0 THEN poly
    ELSE forward_stages(e, butterfly_stage(e, poly, k, m, e.zetas, width),
                        k \div 2, m * 2, width)

\* m = n/2, k = 1; per stage: m /= 2, k *= 2
RECURSIVE inverse_stages(_, _, _, _, _)
inverse_stages(e, poly, k, m, width) ==
    IF m = 0 THEN poly
    ELSE inverse_stages(e, butterfly_stage(e, poly, k, m, e.zetas_inv, width),
                        k * 2, m \div 2, width)

\* a uint32_t buffer holding the integers of p (each below 2^31)
to_words(p) == [i \in 1..Len(p) |-> W32(p[i])]

\* the integer a uint32_t below 2^31 holds
W32_value(x) == x[2] * 65536 + x[1]

ScalarNTTEngine_ntt_forward(e, poly) == forward_stages(e, poly, e.n \div 2, 1, 1)

\* the stages, then poly[i] = montgomery_reduce(uint64_t(poly[i]) * n_inv)
ScalarNTTEngine_ntt_inverse(e, poly) ==
    LET staged == inverse_stages(e, poly, 1, e.n \div 2, 1)
    IN [i \in 1..e.n |-> montgomery_reduce(e, W_mul_small(W64(staged[i]), e.n_inv))]

ScalarNTTEngine_multiply(e, a, b) ==
    LET a_ntt == ScalarNTTEngine_ntt_forward(e, a)
        b_ntt == ScalarNTTEngine_ntt_forward(e, b)
    IN ScalarNTTEngine_ntt_inverse(e,
          [i \in 1..e.n |-> montgomery_reduce(e, W64_mul(a_ntt[i], b_ntt[i]))])

\* colors[i] = ColorValue::from_precise_value(coeffs[i])
convert_uint32_to_colors(coeffs) ==
    [i \in 1..Len(coeffs) |-> from_precise_value(W32_value(coeffs[i]))]

\* coeffs[i] = static_cast<uint32_t>(colors[i].to_precise_value())
convert_colors_to_uint32(colors) ==
    [i \in 1..Len(colors) |-> W32(U32(to_precise_value(colors[i])))]

ntt_forward_colors(e, poly) == forward_stages(e, poly, e.n \div 2, 1, 1)

ntt_inverse_colors(e, poly) ==
    LET staged == inverse_stages(e, poly, 1, e.n \div 2, 1)
    IN [i \in 1..e.n |->
          from_precise_value((to_precise_value(staged[i]) * e.n_inv) % e.q)]

multiply_colors(e, a, b) ==
    LET a_ntt == ntt_forward_colors(e, a)
        b_ntt == ntt_forward_colors(e, b)
    IN ntt_inverse_colors(e,
          [i \in 1..e.n |->
              from_precise_value((to_precise_value(a_ntt[i]) * to_precise_value(b_ntt[i]))
                                 % e.q)])

ColorNTTEngine_ntt_forward(e, poly) ==
    convert_colors_to_uint32(ntt_forward_colors(e, convert_uint32_to_colors(poly)))

ColorNTTEngine_ntt_inverse(e, poly) ==
    convert_colors_to_uint32(ntt_inverse_colors(e, convert_uint32_to_colors(poly)))

ColorNTTEngine_multiply(e, a, b) ==
    convert_colors_to_uint32(multiply_colors(e, convert_uint32_to_colors(a),
                                             convert_uint32_to_colors(b)))

\* AVXNTTEngine works on __m256i* buffers of n/8 vectors but indexes vectors
\* poly[i], poly[i + k] for i < k <= n/2.  mem is the buffer followed by the
\* memory behind it, n vectors (8n words) in all.
ntt_forward_avx(e, mem) == forward_stages(e, mem, e.n \div 2, 1, 8)

\* the stages, then poly_ptr[x] = (uint64_t(poly_ptr[x]) * n_inv) % q on n/8 vectors
ntt_inverse_avx(e, mem) ==
    LET staged == inverse_stages(e, mem, 1, e.n \div 2, 8)
    IN [w \in 1..Len(mem) |->
          IF w <= e.n THEN W32((W32_mod(staged[w], e.q) * e.n_inv) % e.q)
          ELSE staged[w]]

\* a_ntt and b_ntt are fresh allocations; behind_a, behind_b, behind_r are the
\* words behind a_ntt, b_ntt and result
multiply_avx(e, a, b, behind_a, behind_b, behind_r) ==
    LET a_ntt == ntt_forward_avx(e, a \o behind_a)
        b_ntt == ntt_forward_avx(e, b \o behind_b)
        result == [i \in 1..e.n |-> montgomery_reduce(e, W64_mul(a_ntt[i], b_ntt[i]))]
    IN ntt_inverse_avx(e, result \o behind_r)

\* TRUE iff the stage loops index a vector outside a buffer of n/8 vectors
avx_indexes_out_of_range(e) == (e.n \div 2 - 1) + e.n \div 2 >= e.n \div 8

\* the vector indexes poly[i] and poly[i + k], i < k, that the stage loops of
\* ntt_forward_avx (k = n/2, n/4, ..) and ntt_inverse_avx (k = 1, 2, ..) use
RECURSIVE stage_indexes(_)
stage_indexes(k) ==
    IF k = 0 THEN {} ELSE (0..(2 * k - 1)) \cup stage_indexes(k \div 2)

avx_vector_indexes(e) == stage_indexes(e.n \div 2)

\* the schoolbook product of a and b modulo x^n + 1 and modulo q
RECURSIVE sum_range(_, _, _)
sum_range(f, lo, hi) ==
    IF lo > hi THEN 0
    ELSE IF lo = hi THEN f[lo]
    ELSE sum_range(f, lo, (lo + hi) \div 2) + sum_range(f, (lo + hi) \div 2 + 1, hi)

schoolbook_negacyclic(a, b, q) ==
    LET n == Len(a)
    IN [c \in 1..n |->
          LET low  == sum_range([i \in 1..c |-> (a[i] * b[c - i + 1]) % q], 1, c)
              high == sum_range([i \in 1..n |->
                                    IF i > c THEN (a[i] * b[n + c - i + 1]) % q ELSE 0],
                                c + 1, n)
          IN (low + (q - 1) * (high % q)) % q]

(***************************************************************************)
(* State of a ColorKEM session: one instance generating keys and           *)
(* encapsulating, serialised objects in flight, and a decapsulating        *)
(* instance.                                                               *)
(***************************************************************************)
VARIABLES
    kem_level,      \* params_.security_level of the ColorKEM instance
    pc,             \* position of the session
    keygen_calls,   \* number of keygen() calls made so far
    pk, sk,         \* the pair returned by the latest keygen()
    prev_sk,        \* the private key returned by the keygen() call before it
    ct, ss,         \* the pair returned by encapsulate(pk)
    ct_in,          \* the ciphertext object handed to decapsulate
    ct_origin,      \* "honest", "tampered" or "deserialized"
    wire,           \* output of the latest serialize()
    rx_bytes,       \* the byte string handed to the latest deserialize()
    pk_rx, sk_rx,   \* results of ColorPublicKey/ColorPrivateKey::deserialize
    deser_error,    \* TRUE iff the latest deserialize() reported a failure
    dec_level,      \* security level of the instance decapsulate ran on
    dec_oob,        \* TRUE iff decrypt_message indexed past the end of a vector
    dec_status,     \* "none", "returned" or "crashed"
    recovered,      \* the value decapsulate returned
    verify_with,    \* which private key verify_keypair was given
    verify_result,  \* what verify_keypair returned
    keygen_A,       \* the matrix generate_matrix_A returned inside the latest keygen()
    encaps_A,       \* the matrix generate_matrix_A returned inside encapsulate()
    enc_r, enc_e1,  \* the vectors r and e1 encrypt_message sampled
    dec_branches,   \* outcomes of the conditionals decrypt_message evaluated
    dec_again,      \* a second decapsulate call: the arguments varied and its result
    released,       \* bytes left in the buffer of a destroyed ColorPrivateKey
    ntt_pc,         \* position of the NTT session
    engine_kind,    \* "scalar", "avx" or "color" once an engine is constructed
    ntt_n,          \* degree the engine was constructed with
    poly_a, poly_b, \* the polynomials handed to the engine (integers in [0, q))
    poly,           \* the uint32_t buffer the engine wrote
    behind,         \* AVX engine: the words behind the buffer, which it also accesses
    color_in,       \* the integer given to ColorValue::from_precise_value
    color_out,      \* to_precise_value() of the resulting ColorValue
    rand_state,     \* the hidden state of the C library's rand(), one per process
    th_call,        \* per thread: index of the call of its program it is in
    th_buf,         \* per thread: rand() values drawn for the array being filled
    th_draws,       \* per thread: the arrays already filled in the current call
    th_keys,        \* per thread: the pair its keygen() returned
    th_ct,          \* per thread: the pair its encapsulate() returned
    ring_pc,        \* position of the parameter / message session
    req_level,      \* the security level asked of the CLWEParameters constructor
    ring_params,    \* the CLWEParameters object constructed
    config_error,   \* TRUE iff construction reported a configuration error
    message,        \* the bytes handed to encode_message_to_poly
    msg_poly,       \* the AVXPolynomial it returned (vectors of 8 lanes)
    msg_out,        \* the bytes decode_poly_to_message returned
    smp_pc,         \* position of the sampler session
    smp_kind,       \* "shake128" or "shake256" once a sampler is constructed
    smp,            \* the sampler object: state_ and position_
    smp_seed,       \* the seed of the latest init()
    smp_prior,      \* position_ of the object when the latest init() was called
    smp_squeezed,   \* the bytes the object has produced since the latest init()
    smp_last,       \* the call that returned last
    smp_sample,     \* what sample_binomial_coefficient / sample_uniform returned
    smp_modulus,    \* the argument of the sample_uniform call in progress
    smp_rejected,   \* TRUE iff the loop in progress has rejected a candidate
    smp_turn,       \* parity of the number of loop iterations made so far
    smp_coeffs,     \* generate_matrix_A: coeffs[0 .. coeff_idx - 1]
    smp_entry,      \* generate_matrix_A: matrix[i][j] after the assignment loop
    smp_ops,        \* number of calls made on the sampler object
    fac_build,      \* the instruction set the library was compiled for
    fac_pc,         \* position of the engine-factory session
    fac_simd,       \* the SIMDSupport value passed to create_ntt_engine
    fac_engine,     \* the class of the engine it returned
    fac_n,          \* the degree the engine was constructed with
    fac_stack,      \* the calls in progress, innermost last
    fac_turns,      \* inner-loop iterations the transform that returned has made
    mont_pc,        \* position of the Montgomery-reduction session
    mont_kind,      \* whose montgomery_reduce was called
    mont_a,         \* the factors of the product that was reduced
    mont_b,
    mont_r,         \* the uint32_t it returned
    poly_build,     \* "avx2" where HAVE_AVX2 is defined, "fallback" where not
    objs,           \* the AVXPolynomial variables: alive, degree_, modulus_, coeffs_
    heap,           \* the buffers AVXAllocator has handed out: data and times freed
    poly_fault,     \* TRUE once a call has read or written outside a live buffer
    poly_last,      \* the last call: operation, operands before it, result after it
    poly_ops        \* number of calls made

kem_vars == <<kem_level, pc, keygen_calls, pk, sk, prev_sk, ct, ss, ct_in, ct_origin,
              wire, rx_bytes, pk_rx, sk_rx, deser_error, dec_level, dec_oob,
              dec_status, recovered, verify_with, verify_result,
              keygen_A, encaps_A, enc_r, enc_e1, dec_branches, dec_again, released>>

\* what the calls of a session record besides their results
kem_aux == <<keygen_A, encaps_A, enc_r, enc_e1, dec_branches, dec_again, released>>

ntt_vars == <<ntt_pc, engine_kind, ntt_n, poly_a, poly_b, poly, behind, color_in, color_out>>

conc_vars == <<rand_state, th_call, th_buf, th_draws, th_keys, th_ct>>

ring_vars == <<ring_pc, req_level, ring_params, config_error, message, msg_poly, msg_out>>

smp_vars == <<smp_pc, smp_kind, smp, smp_seed, smp_prior, smp_squeezed, smp_last, smp_sample,
              smp_modulus, smp_rejected, smp_turn, smp_coeffs, smp_entry, smp_ops>>

fac_vars == <<fac_build, fac_pc, fac_simd, fac_engine, fac_n, fac_stack, fac_turns>>

\* the variables the calls of one session leave alone
mont_vars == <<mont_pc, mont_kind, mont_a, mont_b, mont_r>>
poly_vars == <<poly_build, objs, heap, poly_fault, poly_last, poly_ops>>

\* the variables the calls of one session leave alone
outside_kem ==
    <<ntt_vars, conc_vars, ring_vars, smp_vars, fac_vars, mont_vars, poly_vars>>
outside_ntt ==
    <<kem_vars, conc_vars, ring_vars, smp_vars, fac_vars, mont_vars, poly_vars>>
outside_conc ==
    <<kem_vars, ntt_vars, ring_vars, smp_vars, fac_vars, mont_vars, poly_vars>>
outside_ring ==
    <<kem_vars, ntt_vars, conc_vars, smp_vars, fac_vars, mont_vars, poly_vars>>
outside_smp ==
    <<kem_vars, ntt_vars, conc_vars, ring_vars, fac_vars, mont_vars, poly_vars>>
outside_fac ==
    <<kem_vars, ntt_vars, conc_vars, ring_vars, smp_vars, mont_vars, poly_vars>>
outside_mont ==
    <<kem_vars, ntt_vars, conc_vars, ring_vars, smp_vars, fac_vars, poly_vars>>
outside_poly == <<kem_vars, ntt_vars, conc_vars, ring_vars, smp_vars, fac_vars, mont_vars>>

vars == <<kem_vars, ntt_vars, conc_vars, ring_vars, smp_vars, fac_vars, mont_vars, poly_vars>>

NoPublicKey == [seed |-> <<>>, public_data |-> <<>>, params |-> DefaultParameters]
NoPrivateKey == [secret_data |-> <<>>, params |-> DefaultParameters]
NoCiphertext == [ciphertext_data |-> <<>>, shared_secret_hint |-> <<>>,
                 params |-> DefaultParameters]
NoColor == ColorValue(0, 0, 0, 0)

\* contents an out-of-range vector read or a never-assigned array may have
JunkColors == {ColorValue(0, 0, 0, 255), ColorValue(0, 0, 1, 255), ColorValue(0, 0, 200, 255)}
UninitSeeds == {SeedOf(<<0, 0>>), SeedOf(<<0, 165>>)}

NoSecondCall == [with_public_key |-> FALSE, hint |-> <<>>, stored_level |-> 0,
                 result |-> NoColor]

params_ == CLWEParameters(kem_level)

InitKEM ==
    /\ kem_level \in Levels
    /\ pc = "init"
    /\ keygen_calls = 0
    /\ pk = NoPublicKey /\ sk = NoPrivateKey /\ prev_sk = NoPrivateKey
    /\ ct = NoCiphertext /\ ss = NoColor
    /\ ct_in = NoCiphertext /\ ct_origin = "none"
    /\ wire = <<>> /\ rx_bytes = <<>>
    /\ pk_rx = NoPublicKey /\ sk_rx = NoPrivateKey
    /\ deser_error = FALSE
    /\ dec_level = 0 /\ dec_oob = FALSE /\ dec_status = "none" /\ recovered = NoColor
    /\ verify_with = "none" /\ verify_result = FALSE
    /\ keygen_A = <<>> /\ encaps_A = <<>> /\ enc_r = <<>> /\ enc_e1 = <<>>
    /\ dec_branches = <<>> /\ dec_again = NoSecondCall /\ released = <<>>

\* auto [public_key, private_key] = kem.keygen();
Keygen ==
    /\ pc \in {"init", "keyed", "rekeyed"}
    /\ keygen_calls < MaxKeygen
    /\ \E matrix_seed \in MatrixSeeds : \E secret_seed \in RandSeeds : \E error_seed \in RandSeeds :
          LET kp == keygen(params_, matrix_seed, secret_seed, error_seed)
          IN /\ pk' = kp.public_key
             /\ sk' = kp.private_key
             /\ keygen_A' = keygen_matrix_A(params_, matrix_seed)
    /\ prev_sk' = sk
    /\ keygen_calls' = keygen_calls + 1
    /\ pc' = IF pc = "init" THEN "keyed" ELSE "rekeyed"
    /\ UNCHANGED <<kem_level, ct, ss, ct_in, ct_origin, wire, rx_bytes, pk_rx, sk_rx,
                   deser_error, dec_level, dec_oob, dec_status, recovered,
                   verify_with, verify_result>>
    /\ UNCHANGED <<encaps_A, enc_r, enc_e1, dec_branches, dec_again, released>>
    /\ UNCHANGED outside_kem

\* kem.verify_keypair(pk, sk) with the private key of the same keygen() call
VerifyOwnKeypair ==
    /\ pc \in {"keyed", "rekeyed"}
    /\ verify_with' = "own"
    /\ verify_result' = verify_keypair(pk, sk)
    /\ pc' = "verified"
    /\ UNCHANGED <<kem_level, keygen_calls, pk, sk, prev_sk, ct, ss, ct_in, ct_origin,
                   wire, rx_bytes, pk_rx, sk_rx, deser_error, dec_level, dec_oob,
                   dec_status, recovered>>
    /\ UNCHANGED kem_aux
    /\ UNCHANGED outside_kem

\* kem.verify_keypair(pk, sk) with the private key of the earlier keygen() call
VerifyForeignKeypair ==
    /\ pc = "rekeyed"
    /\ verify_with' = "previous"
    /\ verify_result' = verify_keypair(pk, prev_sk)
    /\ pc' = "verified"
    /\ UNCHANGED <<kem_level, keygen_calls, pk, sk, prev_sk, ct, ss, ct_in, ct_origin,
                   wire, rx_bytes, pk_rx, sk_rx, deser_error, dec_level, dec_oob,
                   dec_status, recovered>>
    /\ UNCHANGED kem_aux
    /\ UNCHANGED outside_kem

\* byte strings a caller may hand to deserialize() when `w` was sent
Delivered(w) == {w, SubSeq(w, 1, IF Len(w) < 31 THEN Len(w) ELSE 31), SubSeq(w, 1, Len(w) - 1)}

SerializePk ==
    /\ pc = "keyed"
    /\ wire' = ColorPublicKey_serialize(pk)
    /\ pc' = "pk_wire"
    /\ UNCHANGED <<kem_level, keygen_calls, pk, sk, prev_sk, ct, ss, ct_in, ct_origin,
                   rx_bytes, pk_rx, sk_rx, deser_error, dec_level, dec_oob,
                   dec_status, recovered, verify_with, verify_result>>
    /\ UNCHANGED kem_aux
    /\ UNCHANGED outside_kem

\* ColorPublicKey::deserialize returns a key on every path and never throws
DeserializePk ==
    /\ pc = "pk_wire"
    /\ \E data \in Delivered(wire) : \E uninit \in UninitSeeds :
          /\ rx_bytes' = data
          /\ pk_rx' = ColorPublicKey_deserialize(data, uninit)
    /\ deser_error' = FALSE
    /\ pc' = "pk_restored"
    /\ UNCHANGED <<kem_level, keygen_calls, pk, sk, prev_sk, ct, ss, ct_in, ct_origin,
                   wire, sk_rx, dec_level, dec_oob, dec_status, recovered,
                   verify_with, verify_result>>
    /\ UNCHANGED kem_aux
    /\ UNCHANGED outside_kem

SerializeSk ==
    /\ pc = "keyed"
    /\ wire' = ColorPrivateKey_serialize(sk)
    /\ pc' = "sk_wire"
    /\ UNCHANGED <<kem_level, keygen_calls, pk, sk, prev_sk, ct, ss, ct_in, ct_origin,
                   rx_bytes, pk_rx, sk_rx, deser_error, dec_level, dec_oob,
                   dec_status, recovered, verify_with, verify_result>>
    /\ UNCHANGED kem_aux
    /\ UNCHANGED outside_kem

DeserializeSk ==
    /\ pc = "sk_wire"
    /\ \E data \in Delivered(wire) :
          /\ rx_bytes' = data
          /\ sk_rx' = ColorPrivateKey_deserialize(data)
    /\ deser_error' = FALSE
    /\ pc' = "sk_restored"
    /\ UNCHANGED <<kem_level, keygen_calls, pk, sk, prev_sk, ct, ss, ct_in, ct_origin,
                   wire, pk_rx, dec_level, dec_oob, dec_status, recovered,
                   verify_with, verify_result>>
    /\ UNCHANGED kem_aux
    /\ UNCHANGED outside_kem

\* auto [ciphertext, shared_secret] = kem.encapsulate(public_key);
Encapsulate ==
    /\ pc \in {"keyed", "encapsulated"}
    /\ \E bit \in RandBits : \E r_seed \in RandSeeds : \E e1_seed \in RandSeeds :
       \E e2_seed \in RandSeeds :
          LET res == encapsulate(params_, pk, bit, r_seed, e1_seed, e2_seed)
          IN /\ ct' = res.ciphertext
             /\ ss' = res.shared_secret
             /\ ct_in' = res.ciphertext
             /\ encaps_A' = encapsulate_matrix_A(params_, pk)
             /\ enc_r' = generate_secret_key(r_seed, params_)
             /\ enc_e1' = generate_error_vector(e1_seed, params_)
    /\ ct_origin' = "honest"
    /\ pc' = "encapsulated"
    /\ UNCHANGED <<kem_level, keygen_calls, pk, sk, prev_sk, wire, rx_bytes, pk_rx, sk_rx,
                   deser_error, dec_level, dec_oob, dec_status, recovered,
                   verify_with, verify_result>>
    /\ UNCHANGED <<keygen_A, dec_branches, dec_again, released>>
    /\ UNCHANGED outside_kem

\* flip bit 0 of byte 0 of the ciphertext bytes
flip_bit0_byte0(data) == [data EXCEPT ![1] = BitXor8(data[1], 1)]

TamperCiphertext ==
    /\ pc = "encapsulated"
    /\ ct_in' = [ct EXCEPT !.ciphertext_data = flip_bit0_byte0(ct.ciphertext_data)]
    /\ ct_origin' = "tampered"
    /\ pc' = "delivered"
    /\ UNCHANGED <<kem_level, keygen_calls, pk, sk, prev_sk, ct, ss, wire, rx_bytes,
                   pk_rx, sk_rx, deser_error, dec_level, dec_oob, dec_status, recovered,
                   verify_with, verify_result>>
    /\ UNCHANGED kem_aux
    /\ UNCHANGED outside_kem

SerializeCt ==
    /\ pc = "encapsulated"
    /\ wire' = ColorCiphertext_serialize(ct)
    /\ pc' = "ct_wire"
    /\ UNCHANGED <<kem_level, keygen_calls, pk, sk, prev_sk, ct, ss, ct_in, ct_origin,
                   rx_bytes, pk_rx, sk_rx, deser_error, dec_level, dec_oob,
                   dec_status, recovered, verify_with, verify_result>>
    /\ UNCHANGED kem_aux
    /\ UNCHANGED outside_kem

\* ColorCiphertext::deserialize has no failing path either
DeserializeCt ==
    /\ pc = "ct_wire"
    /\ \E data \in Delivered(wire) :
          /\ rx_bytes' = data
          /\ ct_in' = ColorCiphertext_deserialize(data)
    /\ ct_origin' = "deserialized"
    /\ deser_error' = FALSE
    /\ pc' = "delivered"
    /\ UNCHANGED <<kem_level, keygen_calls, pk, sk, prev_sk, ct, ss, wire, pk_rx, sk_rx,
                   dec_level, dec_oob, dec_status, recovered, verify_with, verify_result>>
    /\ UNCHANGED kem_aux
    /\ UNCHANGED outside_kem

\* rx.decapsulate(pk, sk, ct_in) on an instance of level lvl, returning normally
Decapsulate ==
    /\ pc \in {"encapsulated", "delivered"}
    /\ \E lvl \in Levels : \E junk \in JunkColors :
          LET rx_params == CLWEParameters(lvl)
          IN /\ dec_level' = lvl
             /\ dec_oob' = decrypt_reads_out_of_range(bytes_to_colors(sk.secret_data),
                                bytes_to_colors(ct_in.ciphertext_data), rx_params)
             /\ recovered' = decapsulate(rx_params, pk, sk, ct_in, junk)
             /\ dec_branches' = decrypt_message_branches(bytes_to_colors(sk.secret_data),
                                    bytes_to_colors(ct_in.ciphertext_data), rx_params, junk)
    /\ dec_status' = "returned"
    /\ pc' = "decapsulated"
    /\ UNCHANGED <<kem_level, keygen_calls, pk, sk, prev_sk, ct, ss, ct_in, ct_origin,
                   wire, rx_bytes, pk_rx, sk_rx, deser_error, verify_with, verify_result>>
    /\ UNCHANGED <<keygen_A, encaps_A, enc_r, enc_e1, dec_again, released>>
    /\ UNCHANGED outside_kem

\* the other outcome of an out-of-range read: the process is killed
DecapsulateFault ==
    /\ pc \in {"encapsulated", "delivered"}
    /\ \E lvl \in Levels :
          LET rx_params == CLWEParameters(lvl)
          IN /\ decrypt_reads_out_of_range(bytes_to_colors(sk.secret_data),
                                bytes_to_colors(ct_in.ciphertext_data), rx_params)
             /\ dec_level' = lvl
    /\ dec_oob' = TRUE
    /\ dec_status' = "crashed"
    /\ pc' = "decapsulated"
    /\ UNCHANGED <<kem_level, keygen_calls, pk, sk, prev_sk, ct, ss, ct_in, ct_origin,
                   wire, rx_bytes, pk_rx, sk_rx, deser_error, recovered,
                   verify_with, verify_result>>
    /\ UNCHANGED kem_aux
    /\ UNCHANGED outside_kem

\* the same instance is asked again, with the same secret_data and ciphertext_data
\* but another public key argument, another hint and other stored params fields
DecapsulateAgain ==
    /\ pc = "decapsulated" /\ dec_status = "returned"
    /\ \E with_pk \in BOOLEAN : \E hint \in {ct_in.shared_secret_hint, <<1, 2, 3, 4>>} :
       \E stored \in Levels : \E junk \in JunkColors :
          dec_again' =
            [with_public_key |-> with_pk, hint |-> hint, stored_level |-> stored,
             result |-> decapsulate(CLWEParameters(dec_level),
                           IF with_pk THEN pk ELSE NoPublicKey,
                           [secret_data |-> sk.secret_data, params |-> CLWEParameters(stored)],
                           [ciphertext_data |-> ct_in.ciphertext_data,
                            shared_secret_hint |-> hint,
                            params |-> CLWEParameters(stored)],
                           junk)]
    /\ pc' = "decapsulated_again"
    /\ UNCHANGED <<kem_level, keygen_calls, pk, sk, prev_sk, ct, ss, ct_in, ct_origin,
                   wire, rx_bytes, pk_rx, sk_rx, deser_error, dec_level, dec_oob,
                   dec_status, recovered, verify_with, verify_result>>
    /\ UNCHANGED <<keygen_A, encaps_A, enc_r, enc_e1, dec_branches, released>>
    /\ UNCHANGED outside_kem

\* the private key object of the latest keygen() goes out of scope
DestroyPrivateKey ==
    /\ pc \in {"keyed", "rekeyed"}
    /\ released' = ColorPrivateKey_destroy(sk)
    /\ pc' = "destroyed"
    /\ UNCHANGED <<kem_level, keygen_calls, pk, sk, prev_sk, ct, ss, ct_in, ct_origin,
                   wire, rx_bytes, pk_rx, sk_rx, deser_error, dec_level, dec_oob,
                   dec_status, recovered, verify_with, verify_result>>
    /\ UNCHANGED <<keygen_A, encaps_A, enc_r, enc_e1, dec_branches, dec_again>>
    /\ UNCHANGED outside_kem

(***************************************************************************)
(* State of an NTT session: an engine is constructed and asked for a       *)
(* forward and an inverse transform, or for a product.                     *)
(***************************************************************************)
\* the modulus all callers pass
Q == 3329
Degrees == {8, 256}
EngineKinds == {"scalar", "avx", "color"}

\* the t-th polynomial of the family the callers draw from: 1 + x^(n-1), x,
\* two dense polynomials, the all-(q-1) polynomial and 1
PolyCoeff(t, i, n) ==
    CASE t = 1 -> IF i = 0 \/ i = n - 1 THEN 1 ELSE 0
      [] t = 2 -> IF i = 1 THEN 1 ELSE 0
      [] t = 3 -> (17 * i + 5) % Q
      [] t = 4 -> Q - 1
      [] t = 5 -> (1000 * i + 3328) % Q
      [] OTHER -> IF i = 0 THEN 1 ELSE 0

Polys(n) == {[i \in 1..n |-> PolyCoeff(t, i - 1, n)] : t \in 1..NumPolys}

\* contents the memory behind an allocation may have
JunkWords == {<<0, 0>>, <<65535, 65535>>}

\* the 7n words behind a buffer of n/8 vectors that the AVX stage loops reach
words_behind(kind, n, junk) == IF kind = "avx" THEN [w \in 1..(7 * n) |-> junk] ELSE <<>>

engine_ == NTTEngine(engine_kind, Q, ntt_n)

\* engine->ntt_forward(buffer): the buffer and the words behind it afterwards
engine_ntt_forward(e, buffer, after) ==
    CASE e.kind = "scalar" -> [poly |-> ScalarNTTEngine_ntt_forward(e, buffer), behind |-> <<>>]
      [] e.kind = "color"  -> [poly |-> ColorNTTEngine_ntt_forward(e, buffer), behind |-> <<>>]
      [] OTHER -> LET mem == ntt_forward_avx(e, buffer \o after)
                  IN [poly |-> SubSeq(mem, 1, e.n), behind |-> SubSeq(mem, e.n + 1, Len(mem))]

engine_ntt_inverse(e, buffer, after) ==
    CASE e.kind = "scalar" -> [poly |-> ScalarNTTEngine_ntt_inverse(e, buffer), behind |-> <<>>]
      [] e.kind = "color"  -> [poly |-> ColorNTTEngine_ntt_inverse(e, buffer), behind |-> <<>>]
      [] OTHER -> LET mem == ntt_inverse_avx(e, buffer \o after)
                  IN [poly |-> SubSeq(mem, 1, e.n), behind |-> SubSeq(mem, e.n + 1, Len(mem))]

engine_multiply(e, a, b, after) ==
    CASE e.kind = "scalar" -> [poly |-> ScalarNTTEngine_multiply(e, a, b), behind |-> <<>>]
      [] e.kind = "color"  -> [poly |-> ColorNTTEngine_multiply(e, a, b), behind |-> <<>>]
      [] OTHER -> LET mem == multiply_avx(e, a, b, after, after, after)
                  IN [poly |-> SubSeq(mem, 1, e.n), behind |-> SubSeq(mem, e.n + 1, Len(mem))]

InitNTT ==
    /\ ntt_pc = "idle" /\ engine_kind = "none" /\ ntt_n = 0
    /\ poly_a = <<>> /\ poly_b = <<>> /\ poly = <<>> /\ behind = <<>>
    /\ color_in = 0 /\ color_out = 0

\* ScalarNTTEngine(q, n), AVXNTTEngine(q, n) or ColorNTTEngine(q, n)
ConstructEngine ==
    /\ ntt_pc = "idle"
    /\ \E kind \in EngineKinds : \E n \in Degrees :
          /\ engine_kind' = kind
          /\ ntt_n' = n
    /\ ntt_pc' = "ready"
    /\ UNCHANGED <<poly_a, poly_b, poly, behind, color_in, color_out>>
    /\ UNCHANGED outside_ntt

\* copy p into a buffer and call ntt_forward on it
ForwardNTT ==
    /\ ntt_pc = "ready"
    /\ \E p \in Polys(ntt_n) : \E junk \in JunkWords :
          LET res == engine_ntt_forward(engine_, to_words(p),
                                        words_behind(engine_kind, ntt_n, junk))
          IN /\ poly_a' = p
             /\ poly' = res.poly
             /\ behind' = res.behind
    /\ ntt_pc' = "forward"
    /\ UNCHANGED <<engine_kind, ntt_n, poly_b, color_in, color_out>>
    /\ UNCHANGED outside_ntt

\* call ntt_inverse on the buffer ntt_forward wrote
InverseNTT ==
    /\ ntt_pc = "forward"
    /\ LET res == engine_ntt_inverse(engine_, poly, behind)
       IN /\ poly' = res.poly
          /\ behind' = res.behind
    /\ ntt_pc' = "inverse"
    /\ UNCHANGED <<engine_kind, ntt_n, poly_a, poly_b, color_in, color_out>>
    /\ UNCHANGED outside_ntt

\* engine->multiply(a, b, result)
MultiplyPolys ==
    /\ ntt_pc = "ready"
    /\ \E a \in Polys(ntt_n) : \E b \in Polys(ntt_n) : \E junk \in JunkWords :
          LET res == engine_multiply(engine_, to_words(a), to_words(b),
                                     words_behind(engine_kind, ntt_n, junk))
          IN /\ poly_a' = a
             /\ poly_b' = b
             /\ poly' = res.poly
             /\ behind' = res.behind
    /\ ntt_pc' = "multiplied"
    /\ UNCHANGED <<engine_kind, ntt_n, color_in, color_out>>
    /\ UNCHANGED outside_ntt

\* an out-of-range vector access of the AVX engine may also end the process
NTTFault ==
    /\ ntt_pc \in {"ready", "forward"}
    /\ engine_kind = "avx"
    /\ avx_indexes_out_of_range(engine_)
    /\ ntt_pc' = "crashed"
    /\ UNCHANGED <<engine_kind, ntt_n, poly_a, poly_b, poly, behind, color_in, color_out>>
    /\ UNCHANGED outside_ntt

\* convert_uint32_to_colors followed by convert_colors_to_uint32
ConvertColors ==
    /\ ntt_pc = "ready"
    /\ engine_kind = "color"
    /\ \E p \in Polys(ntt_n) :
          /\ poly_a' = p
          /\ poly' = convert_colors_to_uint32(convert_uint32_to_colors(to_words(p)))
    /\ ntt_pc' = "converted"
    /\ UNCHANGED <<engine_kind, ntt_n, poly_b, behind, color_in, color_out>>
    /\ UNCHANGED outside_ntt

\* ColorValue::from_precise_value(v).to_precise_value()
WrapCoefficient ==
    /\ ntt_pc = "idle"
    /\ \E v \in 0..(Q - 1) :
          /\ color_in' = v
          /\ color_out' = to_precise_value(from_precise_value(v))
    /\ ntt_pc' = "wrapped"
    /\ UNCHANGED <<engine_kind, ntt_n, poly_a, poly_b, poly, behind>>
    /\ UNCHANGED outside_ntt

(***************************************************************************)
(* Specifications.                                                         *)
(***************************************************************************)
(***************************************************************************)
(* Threads.  Each thread owns one ColorKEM instance and runs keygen() and  *)
(* encapsulate() on it.  generate_secret_key, generate_error_vector and    *)
(* encapsulate take their randomness from rand(); the generator behind     *)
(* rand() is one hidden word of the process, read and advanced by every    *)
(* call of every thread.  A thread may be descheduled between any two      *)
(* rand() calls; the model lets it run RandBurst calls at a time.          *)
(***************************************************************************)
Threads == {1, 2}

\* the calls each thread makes on its own instance
ThreadPrograms == << <<"keygen", "encapsulate">>, <<"keygen">> >>

\* one rand() call: the generator is a fixed function of its previous state (srand
\* is never called); a congruential step stands for the C library's generator
rand_next(state) == (75 * state + 74) % 65537

\* `count` consecutive rand() calls, appended to `values`
RECURSIVE rand_draw(_, _, _)
rand_draw(state, count, values) ==
    IF count = 0 THEN [values |-> values, state |-> state]
    ELSE rand_draw(rand_next(state), count - 1, Append(values, rand_next(state)))

\* std::generate(seed.begin(), seed.end(), []() { return rand() % 256; })
as_seed(values) == [i \in 1..Len(values) |-> values[i] % 256]

\* sizes of the arrays one call fills from rand(), in the order it fills them:
\* keygen: generate_secret_key, generate_error_vector; encapsulate: rand() % 2,
\* then generate_secret_key and two generate_error_vector calls of encrypt_message
call_arrays(call) == IF call = "keygen" THEN <<32, 32>> ELSE <<1, 32, 32, 32>>

NoKeys == [public_key |-> NoPublicKey, private_key |-> NoPrivateKey]
NoEncapsulation == [ciphertext |-> NoCiphertext, shared_secret |-> NoColor]

InitThreads ==
    /\ rand_state = 1
    /\ th_call = [t \in Threads |-> 1]
    /\ th_buf = [t \in Threads |-> <<>>]
    /\ th_draws = [t \in Threads |-> <<>>]
    /\ th_keys = [t \in Threads |-> NoKeys]
    /\ th_ct = [t \in Threads |-> NoEncapsulation]

\* thread t runs until its next scheduling point inside `call`
thread_draw(t, call) ==
    LET sizes == call_arrays(call)
        size == sizes[Len(th_draws[t]) + 1]
        missing == size - Len(th_buf[t])
        drawn == rand_draw(rand_state, IF missing < RandBurst THEN missing ELSE RandBurst,
                           th_buf[t])
        filled == Len(drawn.values) = size
        draws == IF filled THEN Append(th_draws[t], drawn.values) ELSE th_draws[t]
    IN [state |-> drawn.state,
        buf |-> IF filled THEN <<>> ELSE drawn.values,
        draws |-> draws,
        returns |-> filled /\ Len(draws) = Len(sizes)]

thread_advance(t, step) ==
    /\ rand_state' = step.state
    /\ th_buf' = [th_buf EXCEPT ![t] = step.buf]
    /\ th_draws' = [th_draws EXCEPT ![t] = IF step.returns THEN <<>> ELSE step.draws]
    /\ th_call' = [th_call EXCEPT ![t] = IF step.returns THEN @ + 1 ELSE @]

\* thread t inside kem_t.keygen()
ThreadKeygen(t) ==
    /\ th_call[t] <= Len(ThreadPrograms[t])
    /\ ThreadPrograms[t][th_call[t]] = "keygen"
    /\ \E step \in {thread_draw(t, "keygen")} :
          /\ thread_advance(t, step)
          /\ IF step.returns
             THEN \E matrix_seed \in MatrixSeeds :
                     th_keys' = [th_keys EXCEPT ![t] =
                                   keygen(params_, matrix_seed, as_seed(step.draws[1]),
                                          as_seed(step.draws[2]))]
             ELSE UNCHANGED th_keys
    /\ UNCHANGED th_ct
    /\ UNCHANGED outside_conc

\* thread t inside kem_t.encapsulate(pk_t)
ThreadEncapsulate(t) ==
    /\ th_call[t] <= Len(ThreadPrograms[t])
    /\ ThreadPrograms[t][th_call[t]] = "encapsulate"
    /\ \E step \in {thread_draw(t, "encapsulate")} :
          /\ thread_advance(t, step)
          /\ IF step.returns
             THEN th_ct' = [th_ct EXCEPT ![t] =
                             encapsulate(params_, th_keys[t].public_key,
                                         step.draws[1][1] % 2, as_seed(step.draws[2]),
                                         as_seed(step.draws[3]), as_seed(step.draws[4]))]
             ELSE UNCHANGED th_ct
    /\ UNCHANGED th_keys
    /\ UNCHANGED outside_conc

\* what keygen() returns on a thread that makes the first 64 rand() calls of the process
solo_keygen(params, matrix_seed) ==
    LET secret == rand_draw(1, 32, <<>>)
        error == rand_draw(secret.state, 32, <<>>)
    IN keygen(params, matrix_seed, as_seed(secret.values), as_seed(error.values))

\* what encapsulate(pk) returns on that thread when it makes the next 97 calls too
solo_encapsulate(params, public_key) ==
    LET secret == rand_draw(1, 32, <<>>)
        error == rand_draw(secret.state, 32, <<>>)
        bit == rand_draw(error.state, 1, <<>>)
        r == rand_draw(bit.state, 32, <<>>)
        e1 == rand_draw(r.state, 32, <<>>)
        e2 == rand_draw(e1.state, 32, <<>>)
    IN encapsulate(params, public_key, bit.values[1] % 2, as_seed(r.values),
                   as_seed(e1.values), as_seed(e2.values))

\* (x & (x - 1)) == 0 && x != 0: x has exactly one bit set
RECURSIVE is_power_of_two(_)
is_power_of_two(x) == x # 0 /\ (x = 1 \/ (x % 2 = 0 /\ is_power_of_two(x \div 2)))

(***************************************************************************)
(* Parameter objects and RingOperations: a caller constructs                *)
(* CLWEParameters(sec_level), hands the object to ColorKEM or to           *)
(* RingOperations, and encodes and decodes a message.                      *)
(***************************************************************************)
\* the levels a caller may ask for: the three defined ones and others
RequestedLevels == Levels \cup {0, 100, 512}

MessageParams == << <<1, 1>>, <<1, 0>>, <<0, 0>>, <<0, 255>>, <<16, 16>>, <<3, 7>>,
                    <<255, 0>>, <<0, 1>>, <<8, 0>>, <<5, 250>> >>
\* 32-byte messages
Messages == {SeedOf(MessageParams[i]) : i \in 1..NumMessages}

\* AVXPolynomial::copy_from: degree / 8 vectors of 8 lanes
AVXPolynomial_copy_from(coeffs, degree) ==
    [v \in 1..(degree \div 8) |-> [j \in 1..8 |-> coeffs[8 * (v - 1) + j]]]

\* AVXPolynomial::copy_to
AVXPolynomial_copy_to(avx, degree) ==
    [i \in 1..degree |-> avx[((i - 1) \div 8) + 1][((i - 1) % 8) + 1]]

encode_message_to_poly(msg, params) ==
    LET msg_len == IF Len(msg) < params.degree THEN Len(msg) ELSE params.degree
        coeffs == [i \in 1..params.degree |->
                     IF i <= msg_len THEN msg[i] % params.modulus ELSE 0]
    IN AVXPolynomial_copy_from(coeffs, params.degree)

\* The loop pushes nothing before the first non-zero coefficient and every
\* coefficient (mod 256) from there on, until 32 bytes are pushed or the
\* coefficients end.
decode_poly_to_message(avx, params) ==
    LET coeffs == AVXPolynomial_copy_to(avx, params.degree)
        nonzero == {i \in 1..params.degree : coeffs[i] # 0}
    IN IF nonzero = {} THEN <<>>
       ELSE LET first == CHOOSE i \in nonzero : \A j \in nonzero : i <= j
                last == IF first + 31 < params.degree THEN first + 31 ELSE params.degree
            IN [i \in 1..(last - first + 1) |-> coeffs[first + i - 1] % 256]

InitRing ==
    /\ ring_pc = "start"
    /\ req_level = 0
    /\ ring_params = DefaultParameters
    /\ config_error = FALSE
    /\ message = <<>> /\ msg_poly = <<>> /\ msg_out = <<>>

\* CLWEParameters params(sec_level); the constructor has no failing path
ConstructParameters ==
    /\ ring_pc = "start"
    /\ \E sec_level \in RequestedLevels :
          /\ req_level' = sec_level
          /\ ring_params' = CLWEParameters(sec_level)
    /\ config_error' = FALSE
    /\ ring_pc' = "params"
    /\ UNCHANGED <<message, msg_poly, msg_out>>
    /\ UNCHANGED outside_ring

\* ColorKEM kem(params): stores params and builds ColorNTTEngine(modulus, degree),
\* which throws only when degree is not a power of two
ConstructKEM ==
    /\ ring_pc = "params"
    /\ is_power_of_two(ring_params.degree)
    /\ ring_pc' = "kem"
    /\ UNCHANGED <<req_level, ring_params, config_error, message, msg_poly, msg_out>>
    /\ UNCHANGED outside_ring

\* RingOperations ring(params, &engine);
ConstructRingOperations ==
    /\ ring_pc = "params"
    /\ ring_pc' = "ring"
    /\ UNCHANGED <<req_level, ring_params, config_error, message, msg_poly, msg_out>>
    /\ UNCHANGED outside_ring

EncodeMessage ==
    /\ ring_pc = "ring"
    /\ \E msg \in Messages :
          /\ message' = msg
          /\ msg_poly' = encode_message_to_poly(msg, ring_params)
    /\ ring_pc' = "encoded"
    /\ UNCHANGED <<req_level, ring_params, config_error, msg_out>>
    /\ UNCHANGED outside_ring

DecodeMessage ==
    /\ ring_pc = "encoded"
    /\ msg_out' = decode_poly_to_message(msg_poly, ring_params)
    /\ ring_pc' = "decoded"
    /\ UNCHANGED <<req_level, ring_params, config_error, message, msg_poly>>
    /\ UNCHANGED outside_ring

(***************************************************************************)
(* Samplers.  A caller constructs a SHAKE128Sampler or a SHAKE256Sampler,  *)
(* initialises it (again and again) and draws from it; generate_matrix_A   *)
(* drives a SHAKE128Sampler of its own through its rejection loop.  The    *)
(* two rejection loops advance one iteration at a time.                    *)
(***************************************************************************)
SamplerKinds == {"shake128", "shake256"}

\* seeds handed to init(): the 32-byte arrays of the entropy sources and a short one
SamplerSeeds == RandSeeds \cup MatrixSeeds \cup {<<7, 9, 250>>}

\* lengths of the squeeze calls of the library: 1, 3 and 4 bytes
SqueezeLengths == {1, 3, 4}

\* arguments of sample_uniform: q, and a modulus just above a power of two
UniformModuli == {3329, 5}

sampler_new(kind) == IF kind = "shake128" THEN SHAKE128Sampler ELSE SHAKE256Sampler

sampler_init(kind, s, seed) ==
    IF kind = "shake128" THEN SHAKE128_init_on(s, seed) ELSE SHAKE256_init_on(s, seed)

sampler_squeeze(kind, s, len) ==
    IF kind = "shake128" THEN SHAKE128_squeeze(s, len) ELSE SHAKE256_squeeze(s, len)

InitSamplers ==
    /\ smp_pc = "none" /\ smp_kind = "none"
    /\ smp = SHAKE128Sampler /\ smp_seed = <<>> /\ smp_prior = 0 /\ smp_squeezed = <<>>
    /\ smp_last = "none" /\ smp_sample = 0 /\ smp_modulus = 0 /\ smp_rejected = FALSE
    /\ smp_turn = 0
    /\ smp_coeffs = <<>> /\ smp_entry = NoColor /\ smp_ops = 0

\* SHAKE128Sampler shake128;  or  SHAKE256Sampler sampler;
ConstructSampler ==
    /\ smp_pc = "none"
    /\ \E kind \in SamplerKinds :
          /\ smp_kind' = kind
          /\ smp' = sampler_new(kind)
    /\ smp_pc' = "constructed"
    /\ UNCHANGED <<smp_seed, smp_prior, smp_squeezed, smp_last, smp_sample,
                   smp_modulus, smp_rejected, smp_coeffs, smp_entry, smp_ops>>
    /\ UNCHANGED smp_turn
    /\ UNCHANGED outside_smp

\* sampler.init(seed.data(), seed.size())
InitSampler ==
    /\ smp_pc \in {"constructed", "ready"}
    /\ smp_ops < MaxSamplerOps
    /\ \E seed \in SamplerSeeds :
          /\ smp' = sampler_init(smp_kind, smp, seed)
          /\ smp_seed' = seed
    /\ smp_prior' = smp.position
    /\ smp_squeezed' = <<>>
    /\ smp_last' = "init"
    /\ smp_pc' = "ready"
    /\ smp_ops' = smp_ops + 1
    /\ UNCHANGED <<smp_kind, smp_sample, smp_modulus, smp_rejected, smp_coeffs, smp_entry>>
    /\ UNCHANGED smp_turn
    /\ UNCHANGED outside_smp

\* sampler.squeeze(out, len)
SqueezeSampler ==
    /\ smp_pc = "ready"
    /\ smp_ops < MaxSamplerOps
    /\ \E len \in SqueezeLengths :
          LET squeezed == sampler_squeeze(smp_kind, smp, len)
          IN /\ smp' = squeezed.sampler
             /\ smp_squeezed' = smp_squeezed \o squeezed.out
    /\ smp_last' = "squeeze"
    /\ smp_ops' = smp_ops + 1
    /\ UNCHANGED <<smp_pc, smp_kind, smp_seed, smp_prior, smp_sample, smp_modulus, smp_rejected,
                   smp_coeffs, smp_entry>>
    /\ UNCHANGED smp_turn
    /\ UNCHANGED outside_smp

\* sampler.sample_binomial_coefficient(params_.eta)
SampleBinomial ==
    /\ smp_pc = "ready" /\ smp_kind = "shake256"
    /\ smp_ops < MaxSamplerOps
    /\ LET drawn == sample_binomial_coefficient(smp, DefaultParameters.eta)
       IN /\ smp_sample' = drawn.result
          /\ smp' = drawn.sampler
          /\ smp_squeezed' = smp_squeezed
                \o SHAKE256_squeeze(smp, drawn.sampler.position - smp.position).out
    /\ smp_last' = "binomial"
    /\ smp_ops' = smp_ops + 1
    /\ UNCHANGED <<smp_pc, smp_kind, smp_seed, smp_prior, smp_modulus, smp_rejected, smp_coeffs,
                   smp_entry>>
    /\ UNCHANGED smp_turn
    /\ UNCHANGED outside_smp

\* sampler.sample_uniform(modulus): the mask is computed and the loop entered
BeginUniform ==
    /\ smp_pc = "ready" /\ smp_kind = "shake256"
    /\ smp_ops < MaxSamplerOps
    /\ \E modulus \in UniformModuli : smp_modulus' = modulus
    /\ smp_rejected' = FALSE
    /\ smp_pc' = "uniform"
    /\ smp_ops' = smp_ops + 1
    /\ UNCHANGED <<smp_kind, smp, smp_seed, smp_prior, smp_squeezed, smp_last, smp_sample,
                   smp_coeffs, smp_entry>>
    /\ UNCHANGED smp_turn
    /\ UNCHANGED outside_smp

\* one iteration of the loop of sample_uniform: return the sample or go round again
UniformStep ==
    /\ smp_pc = "uniform"
    /\ LET step == sample_uniform_step(smp, smp_modulus)
       IN /\ smp' = step.sampler
          /\ smp_squeezed' = smp_squeezed
                \o SHAKE256_squeeze(smp, step.sampler.position - smp.position).out
          /\ IF step.returns
             THEN /\ smp_sample' = step.sample
                  /\ smp_last' = "uniform"
                  /\ smp_pc' = "ready"
                  /\ UNCHANGED smp_rejected
             ELSE /\ smp_rejected' = TRUE
                  /\ UNCHANGED <<smp_sample, smp_last, smp_pc>>
    /\ UNCHANGED <<smp_kind, smp_seed, smp_prior, smp_modulus, smp_coeffs, smp_entry, smp_ops>>
    /\ smp_turn' = 1 - smp_turn
    /\ UNCHANGED outside_smp

\* generate_matrix_A, entry (i, j): shake_input = seed || i || j, shake128.init
BeginMatrixEntry ==
    /\ smp_pc = "none"
    /\ \E seed \in RandSeeds \cup MatrixSeeds :
       \E i \in 0..(DefaultParameters.module_rank - 1) :
       \E j \in 0..(DefaultParameters.module_rank - 1) :
          LET shake_input == seed \o <<i, j>>
          IN /\ smp' = SHAKE128_init_on(SHAKE128Sampler, shake_input)
             /\ smp_seed' = shake_input
    /\ smp_prior' = 0
    /\ smp_kind' = "shake128"
    /\ smp_coeffs' = <<>>
    /\ smp_rejected' = FALSE
    /\ smp_last' = "init"
    /\ smp_pc' = "matrix"
    /\ UNCHANGED <<smp_squeezed, smp_sample, smp_modulus, smp_entry, smp_ops>>
    /\ UNCHANGED smp_turn
    /\ UNCHANGED outside_smp

\* one iteration of while (coeff_idx < n)
MatrixStep ==
    /\ smp_pc = "matrix"
    /\ Len(smp_coeffs) < DefaultParameters.degree
    /\ LET step == matrix_loop_step(smp, smp_coeffs, DefaultParameters.degree,
                                    DefaultParameters.modulus)
       IN /\ smp' = step.sampler
          /\ smp_coeffs' = step.coeffs
          /\ smp_squeezed' = smp_squeezed \o SHAKE128_squeeze(smp, 3).out
          /\ smp_rejected' = (smp_rejected \/ Len(step.coeffs) < Len(smp_coeffs) + 2)
    /\ UNCHANGED <<smp_pc, smp_kind, smp_seed, smp_prior, smp_last, smp_sample, smp_modulus,
                   smp_entry, smp_ops>>
    /\ smp_turn' = 1 - smp_turn
    /\ UNCHANGED outside_smp

\* the loop has ended; for (coeff < n) matrix[i][j] = from_precise_value(coeffs[coeff])
AssignMatrixEntry ==
    /\ smp_pc = "matrix"
    /\ Len(smp_coeffs) >= DefaultParameters.degree
    /\ smp_entry' = matrix_entry_assign(smp_coeffs, DefaultParameters.degree)
    /\ smp_last' = "entry"
    /\ smp_pc' = "entry"
    /\ UNCHANGED <<smp_kind, smp, smp_seed, smp_prior, smp_squeezed, smp_sample, smp_modulus,
                   smp_rejected, smp_coeffs, smp_ops>>
    /\ smp_turn' = 1 - smp_turn
    /\ UNCHANGED outside_smp


\* a loop in progress makes a turn: an iteration, or its exit
LoopTurn ==
    /\ smp_pc \in {"uniform", "matrix"}
    /\ smp_turn' = 1 - smp_turn

(***************************************************************************)
(* The engine factory.  The library is compiled for one instruction set;   *)
(* a caller asks create_ntt_engine for an engine and calls ntt_forward or  *)
(* ntt_inverse on it.  A call in progress is a frame on the stack of the   *)
(* calling thread.                                                         *)
(***************************************************************************)
\* enum class SIMDSupport
SIMDSupport == {"NONE", "AVX2", "AVX512", "NEON", "RVV", "VSX"}

\* what the preprocessor sees: __ARM_NEON, __riscv_v, or neither
Builds == {"generic", "arm_neon", "riscv_v"}

Transforms == {"ntt_forward", "ntt_inverse"}

\* the switch of create_ntt_engine: the class of the engine it makes
create_ntt_engine(simd_support) ==
    CASE simd_support = "NEON" -> "NEONNTTEngine"
      [] simd_support = "RVV"  -> "RVVNTTEngine"
      [] OTHER                 -> "ScalarNTTEngine"

\* TRUE iff the body of class::ntt_forward / ntt_inverse compiled is the one with
\* the stage loops: always for the scalar engine, the #ifdef branch for the others
has_stage_loops(class, build) ==
    \/ class = "ScalarNTTEngine"
    \/ class = "NEONNTTEngine" /\ build = "arm_neon"
    \/ class = "RVVNTTEngine" /\ build = "riscv_v"

\* the #else branch is the statement  ntt_forward(poly);  (ntt_inverse(poly);)
\* inside a member function of class: a call of the virtual member of this object
fallback_callee(frame) == [class |-> frame.class, function |-> frame.function]

\* lanes one inner-loop iteration handles: for (i = 0; i < k; i += lanes)
lanes_of(class) == IF class = "ScalarNTTEngine" THEN 1 ELSE 4

\* iterations of the inner loop over the stages k = n/2, n/4, .., 1 (or 1, 2, .., n/2)
RECURSIVE stage_loop_turns(_, _)
stage_loop_turns(k, lanes) ==
    IF k = 0 THEN 0
    ELSE (k + lanes - 1) \div lanes + stage_loop_turns(k \div 2, lanes)

FactoryIdle ==
    /\ fac_pc = "none" /\ fac_simd = "NONE" /\ fac_engine = "none" /\ fac_n = 0
    /\ fac_stack = <<>> /\ fac_turns = 0

InitFactory == fac_build = "generic" /\ FactoryIdle

\* auto engine = create_ntt_engine(simd_support, q, n);
CreateEngine ==
    /\ fac_pc = "none"
    /\ \E simd_support \in SIMDSupport : \E n \in Degrees :
          /\ fac_simd' = simd_support
          /\ fac_engine' = create_ntt_engine(simd_support)
          /\ fac_n' = n
    /\ fac_pc' = "engine"
    /\ UNCHANGED <<fac_build, fac_stack, fac_turns>>
    /\ UNCHANGED outside_fac

\* engine->ntt_forward(poly);  or  engine->ntt_inverse(poly);
CallTransform ==
    /\ fac_pc = "engine"
    /\ \E function \in Transforms :
          fac_stack' = <<[class |-> fac_engine, function |-> function]>>
    /\ fac_pc' = "running"
    /\ UNCHANGED <<fac_build, fac_simd, fac_engine, fac_n, fac_turns>>
    /\ UNCHANGED outside_fac

\* the innermost call runs its stage loops and returns
RunStageLoops ==
    /\ fac_pc = "running"
    /\ has_stage_loops(fac_stack[Len(fac_stack)].class, fac_build)
    /\ fac_turns' = stage_loop_turns(fac_n \div 2, lanes_of(fac_stack[Len(fac_stack)].class))
    /\ fac_stack' = SubSeq(fac_stack, 1, Len(fac_stack) - 1)
    /\ fac_pc' = IF Len(fac_stack) = 1 THEN "returned" ELSE "running"
    /\ UNCHANGED <<fac_build, fac_simd, fac_engine, fac_n>>
    /\ UNCHANGED outside_fac

\* the innermost call runs its #else branch: one more call
FallbackCall ==
    /\ fac_pc = "running"
    /\ ~has_stage_loops(fac_stack[Len(fac_stack)].class, fac_build)
    /\ Len(fac_stack) < MaxCallDepth
    /\ fac_stack' = Append(fac_stack, fallback_callee(fac_stack[Len(fac_stack)]))
    /\ UNCHANGED <<fac_build, fac_pc, fac_simd, fac_engine, fac_n, fac_turns>>
    /\ UNCHANGED outside_fac

\* the call of the #else branch finds the stack of the thread used up: the
\* process is stopped at the guard page, and the transform has not returned
StackExhausted ==
    /\ fac_pc = "running"
    /\ ~has_stage_loops(fac_stack[Len(fac_stack)].class, fac_build)
    /\ Len(fac_stack) >= MaxCallDepth
    /\ fac_pc' = "overflow"
    /\ UNCHANGED <<fac_build, fac_simd, fac_engine, fac_n, fac_stack, fac_turns>>
    /\ UNCHANGED outside_fac


(***************************************************************************)
(* Montgomery reduction of a product of two residues, by an engine or by   *)
(* the free function of utils.hpp.                                         *)
(***************************************************************************)
\* the residues the factors are drawn from
MontgomeryFactors == {0, 1, 2, 3, 17, 256, 1353, 1929, 3327, 3328}

MontgomeryKinds == {"scalar", "avx", "utils"}

InitMontgomery ==
    mont_pc = "none" /\ mont_kind = "scalar" /\ mont_a = 0 /\ mont_b = 0 /\ mont_r = W32(0)

\* r = montgomery_reduce(uint64_t(a) * b)  or  r = montgomery_reduce(uint64_t(a) * b, q)
MontgomeryReduce ==
    /\ \E kind \in MontgomeryKinds : \E a, b \in MontgomeryFactors :
          /\ mont_kind' = kind
          /\ mont_a' = a
          /\ mont_b' = b
          /\ mont_r' = IF kind = "utils"
                       THEN utils_montgomery_reduce(W64_mul(W32(a), W32(b)), Q)
                       ELSE montgomery_reduce(NTTEngine(kind, Q, 8), W64_mul(W32(a), W32(b)))
    /\ mont_pc' = "reduced"
    /\ UNCHANGED outside_mont


(***************************************************************************)
(* AVXPolynomial objects.  A variable holds degree_, modulus_ and coeffs_, *)
(* the buffer AVXAllocator gave it (0 is nullptr).  A buffer is the        *)
(* sequence of its uint32_t lanes, coefficient i in lane i, and the number *)
(* of times it was deallocated.  An operation maps a memory, the record of *)
(* objs, heap and fault, to the memory after it.                           *)
(***************************************************************************)
Slots == 1..NumObjects
PolyDegrees == {8, 16}
PolyBuilds == {"avx2", "fallback"}

\* the coefficient arrays callers load with copy_from
PolyInputs(n) == {[i \in 1..n |-> W32(1)], [i \in 1..n |-> W32(Q - i)]}

\* the scalars passed to scalar_mul_avx: 3 and 2^31
PolyScalars == {W32(3), <<0, 32768>>}

NoObject == [alive |-> FALSE, degree |-> 0, modulus |-> 0, coeffs |-> 0]
NoCall == [op |-> "none", this |-> 0, x |-> <<>>, y |-> <<>>, z |-> <<>>,
           scalar |-> W32(0), out |-> <<>>]

\* what malloc returns: lanes holding whatever was there
fresh_buffer(degree) == [data |-> [i \in 1..(8 * (degree \div 8)) |-> <<57005, 48879>>],
                         frees |-> 0]

\* TRUE iff coeffs_ of o points to a buffer that holds nvec vectors and is not freed
usable(m, o, nvec) ==
    /\ m.objs[o].coeffs # 0
    /\ m.heap[m.objs[o].coeffs].frees = 0
    /\ Len(m.heap[m.objs[o].coeffs].data) >= 8 * nvec

contents(m, o) == IF m.objs[o].coeffs = 0 THEN <<>> ELSE m.heap[m.objs[o].coeffs].data

\* AVXPolynomial::allocate_coeffs
allocate_coeffs(m, o) ==
    IF m.objs[o].degree > 0
    THEN [m EXCEPT !.heap = Append(m.heap, fresh_buffer(m.objs[o].degree)),
                   !.objs[o].coeffs = Len(m.heap) + 1]
    ELSE m

\* AVXPolynomial::deallocate_coeffs
deallocate_coeffs(m, o) ==
    IF m.objs[o].coeffs # 0
    THEN [m EXCEPT !.heap[m.objs[o].coeffs].frees = @ + 1, !.objs[o].coeffs = 0]
    ELSE m

\* write lanes 1..Len(lanes) of the buffer of o
store_lanes(m, o, lanes) ==
    IF Len(lanes) = 0 THEN m
    ELSE IF ~usable(m, o, Len(lanes) \div 8) THEN [m EXCEPT !.fault = TRUE]
    ELSE [m EXCEPT !.heap[m.objs[o].coeffs].data =
                       [i \in 1..Len(@) |-> IF i <= Len(lanes) THEN lanes[i] ELSE @[i]]]

\* read lanes 1..8 * nvec of the buffer of o
load_lanes(m, o, nvec) ==
    IF nvec = 0 THEN <<>>
    ELSE IF ~usable(m, o, nvec) THEN [i \in 1..(8 * nvec) |-> <<57005, 48879>>]
    ELSE SubSeq(m.heap[m.objs[o].coeffs].data, 1, 8 * nvec)

\* memcpy(coeffs_, other.coeffs_, (degree_ / 8) * sizeof(__m256i)) with degree_ of o
memcpy_coeffs(m, o, other) ==
    LET nvec == m.objs[o].degree \div 8
    IN IF nvec > 0 /\ ~usable(m, other, nvec) THEN [m EXCEPT !.fault = TRUE]
       ELSE store_lanes(m, o, load_lanes(m, other, nvec))

\* AVXPolynomial::set_zero
set_zero(m, o) ==
    store_lanes(m, o, [i \in 1..(8 * (m.objs[o].degree \div 8)) |-> W32(0)])

\* AVXPolynomial(degree, modulus, ntt)
AVXPolynomial_new(m, o, degree, modulus) ==
    set_zero(allocate_coeffs(
        [m EXCEPT !.objs[o] = [alive |-> TRUE, degree |-> degree, modulus |-> modulus,
                               coeffs |-> 0]], o), o)

\* a copy constructor that copies the handle instead of the lanes
AVXPolynomial_copy_handle(m, o, other) ==
    [m EXCEPT !.objs[o] = [m.objs[other] EXCEPT !.alive = TRUE]]

\* AVXPolynomial(const AVXPolynomial& other)
AVXPolynomial_copy(m, o, other) ==
    memcpy_coeffs(allocate_coeffs(
        [m EXCEPT !.objs[o] = [alive |-> TRUE, degree |-> m.objs[other].degree,
                               modulus |-> m.objs[other].modulus, coeffs |-> 0]], o),
        o, other)

\* AVXPolynomial(AVXPolynomial&& other)
AVXPolynomial_move(m, o, other) ==
    [m EXCEPT !.objs[o] = [alive |-> TRUE, degree |-> m.objs[other].degree,
                           modulus |-> m.objs[other].modulus,
                           coeffs |-> m.objs[other].coeffs],
              !.objs[other].coeffs = 0,
              !.objs[other].degree = 0]

\* ~AVXPolynomial
AVXPolynomial_destroy(m, o) ==
    LET freed == deallocate_coeffs(m, o)
    IN [freed EXCEPT !.objs[o] = NoObject]

\* operator=(const AVXPolynomial& other)
AVXPolynomial_assign(m, o, other) ==
    IF o = other THEN m
    ELSE LET sized ==
                 IF m.objs[o].degree # m.objs[other].degree
                    \/ m.objs[o].modulus # m.objs[other].modulus
                 THEN LET freed == deallocate_coeffs(m, o)
                      IN allocate_coeffs(
                             [freed EXCEPT !.objs[o].degree = m.objs[other].degree,
                                           !.objs[o].modulus = m.objs[other].modulus], o)
                 ELSE m
         IN memcpy_coeffs(sized, o, other)

\* operator=(AVXPolynomial&& other)
AVXPolynomial_move_assign(m, o, other) ==
    IF o = other THEN m
    ELSE LET freed == deallocate_coeffs(m, o)
         IN [freed EXCEPT !.objs[o].degree = m.objs[other].degree,
                          !.objs[o].modulus = m.objs[other].modulus,
                          !.objs[o].coeffs = m.objs[other].coeffs,
                          !.objs[other].coeffs = 0,
                          !.objs[other].degree = 0]

\* AVXPolynomial::copy_from(coeffs): the first degree_ values of the array
poly_copy_from(m, o, coeffs) == store_lanes(m, o, SubSeq(coeffs, 1, m.objs[o].degree))

\* _mm256_cmpgt_epi32(x, q_vec) on one lane: signed comparison
cmpgt_epi32(x, q) == x[2] < 32768 /\ (x[2] > 0 \/ x[1] > q)

\* AVXPolynomial::mod_reduce_avx on one lane, HAVE_AVX2
mod_reduce_lane(x, q) == IF cmpgt_epi32(x, q) THEN W_sub(x, W32(q)) ELSE x

\* the low and the high 16 bits of the product of two 16-bit limbs
mul16_low(a, b) == (a * (b % 256) + 256 * ((a * (b \div 256)) % 256)) % 65536
mul16_high(a, b) ==
    (a * (b % 256) + 256 * ((a * (b \div 256)) % 256)) \div 65536 + (a * (b \div 256)) \div 256

\* _mm256_mullo_epi32 on one lane, and uint32_t * uint32_t: the low 32 bits
mullo_epi32(x, y) ==
    << mul16_low(x[1], y[1]),
       (mul16_high(x[1], y[1]) + mul16_low(x[1], y[2]) + mul16_low(x[2], y[1])) % 65536 >>

\* one lane of add_avx, sub_avx and scalar_mul_avx, on each build
add_lane(build, x, y, q) ==
    IF build = "avx2" THEN mod_reduce_lane(W_add(x, y), q)
    ELSE W32(W32_mod(W_add(x, y), q))

sub_lane(build, x, y, q) ==
    IF build = "avx2" THEN mod_reduce_lane(W_sub(x, y), q)
    ELSE W32(W32_mod(W_add(W_sub(x, y), W32(q)), q))

scalar_mul_lane(build, x, scalar, q) ==
    IF build = "avx2" THEN mod_reduce_lane(mullo_epi32(x, scalar), q)
    ELSE W32(W32_mod(mullo_epi32(x, scalar), q))

\* for (i = 0; i < degree_ / 8; ++i) coeffs_[i] = f(coeffs_[i], other.coeffs_[i])
lanewise(m, o, other, f(_, _)) ==
    LET nvec == m.objs[o].degree \div 8
        x == load_lanes(m, o, nvec)
        y == load_lanes(m, other, nvec)
    IN IF nvec > 0 /\ (~usable(m, o, nvec) \/ ~usable(m, other, nvec))
       THEN [m EXCEPT !.fault = TRUE]
       ELSE store_lanes(m, o, [i \in 1..(8 * nvec) |-> f(x[i], y[i])])

add_avx(build, m, o, other) ==
    LET f(x, y) == add_lane(build, x, y, m.objs[o].modulus) IN lanewise(m, o, other, f)

sub_avx(build, m, o, other) ==
    LET f(x, y) == sub_lane(build, x, y, m.objs[o].modulus) IN lanewise(m, o, other, f)

scalar_mul_avx(build, m, o, scalar) ==
    LET f(x, y) == scalar_mul_lane(build, x, scalar, m.objs[o].modulus)
    IN lanewise(m, o, o, f)

\* RingOperations::poly_add_avx: result.add_avx(a); result.add_avx(b);
poly_add_avx(build, m, a, b, result) ==
    add_avx(build, add_avx(build, m, result, a), result, b)

\* RingOperations::poly_sub_avx: result = a; result.sub_avx(b);
poly_sub_avx(build, m, a, b, result) ==
    sub_avx(build, AVXPolynomial_assign(m, result, a), result, b)

memory == [objs |-> objs, heap |-> heap, fault |-> poly_fault]

PolyIdle ==
    /\ objs = [o \in Slots |-> NoObject]
    /\ heap = <<>>
    /\ poly_fault = FALSE
    /\ poly_last = NoCall
    /\ poly_ops = 0

InitPoly == poly_build = "fallback" /\ PolyIdle

\* the memory after a call, and the record of the call
Called(after, call) ==
    /\ objs' = after.objs
    /\ heap' = after.heap
    /\ poly_fault' = after.fault
    /\ poly_last' = call
    /\ poly_ops' = poly_ops + 1
    /\ UNCHANGED poly_build
    /\ UNCHANGED outside_poly

\* AVXPolynomial p(degree, modulus, ntt);
Construct ==
    /\ poly_ops < MaxPolyOps
    /\ \E o \in Slots : \E degree \in PolyDegrees :
        /\ ~objs[o].alive
        /\ Called(AVXPolynomial_new(memory, o, degree, Q),
                  [NoCall EXCEPT !.op = "new", !.this = o])

\* AVXPolynomial p(other);
CopyConstruct ==
    /\ poly_ops < MaxPolyOps
    /\ \E o, other \in Slots :
        /\ ~objs[o].alive /\ objs[other].alive
        /\ Called(AVXPolynomial_copy(memory, o, other),
                  [NoCall EXCEPT !.op = "copy", !.this = o])

\* AVXPolynomial p(std::move(other));
MoveConstruct ==
    /\ poly_ops < MaxPolyOps
    /\ \E o, other \in Slots :
        /\ ~objs[o].alive /\ objs[other].alive
        /\ Called(AVXPolynomial_move(memory, o, other),
                  [NoCall EXCEPT !.op = "move", !.this = o])

\* p = other;
CopyAssign ==
    /\ poly_ops < MaxPolyOps
    /\ \E o, other \in Slots :
        /\ objs[o].alive /\ objs[other].alive
        /\ Called(AVXPolynomial_assign(memory, o, other),
                  [NoCall EXCEPT !.op = "assign", !.this = o])

\* p = std::move(other);
MoveAssign ==
    /\ poly_ops < MaxPolyOps
    /\ \E o, other \in Slots :
        /\ objs[o].alive /\ objs[other].alive
        /\ Called(AVXPolynomial_move_assign(memory, o, other),
                  [NoCall EXCEPT !.op = "move_assign", !.this = o])

\* p goes out of scope
Destroy ==
    /\ poly_ops < MaxPolyOps
    /\ \E o \in Slots :
        /\ objs[o].alive
        /\ Called(AVXPolynomial_destroy(memory, o),
                  [NoCall EXCEPT !.op = "destroy", !.this = o])

\* p.copy_from(coeffs);
CopyFrom ==
    /\ poly_ops < MaxPolyOps
    /\ \E o \in Slots : \E coeffs \in PolyInputs(16) :
        /\ objs[o].alive
        /\ Called(poly_copy_from(memory, o, coeffs),
                  [NoCall EXCEPT !.op = "copy_from", !.this = o])

\* the operands of a call on polynomials of one ring
SameRing(o, other) ==
    /\ objs[o].alive /\ objs[other].alive
    /\ objs[o].degree > 0
    /\ objs[o].degree = objs[other].degree
    /\ objs[o].modulus = objs[other].modulus

\* p.add_avx(other);
AddAVX ==
    /\ poly_ops < MaxArithmeticOps
    /\ \E o, other \in Slots :
        /\ SameRing(o, other)
        /\ LET after == add_avx(poly_build, memory, o, other)
           IN Called(after, [NoCall EXCEPT !.op = "add_avx", !.this = o,
                                           !.x = contents(memory, o),
                                           !.y = contents(memory, other),
                                           !.out = contents(after, o)])

\* p.sub_avx(other);
SubAVX ==
    /\ poly_ops < MaxArithmeticOps
    /\ \E o, other \in Slots :
        /\ SameRing(o, other)
        /\ LET after == sub_avx(poly_build, memory, o, other)
           IN Called(after, [NoCall EXCEPT !.op = "sub_avx", !.this = o,
                                           !.x = contents(memory, o),
                                           !.y = contents(memory, other),
                                           !.out = contents(after, o)])

\* p.scalar_mul_avx(scalar);
ScalarMulAVX ==
    /\ poly_ops < MaxArithmeticOps
    /\ \E o \in Slots : \E scalar \in PolyScalars :
        /\ SameRing(o, o)
        /\ LET after == scalar_mul_avx(poly_build, memory, o, scalar)
           IN Called(after, [NoCall EXCEPT !.op = "scalar_mul_avx", !.this = o,
                                           !.x = contents(memory, o),
                                           !.scalar = scalar,
                                           !.out = contents(after, o)])

\* ring.poly_add_avx(a, b, result);
PolyAddAVX ==
    /\ poly_ops < MaxArithmeticOps
    /\ \E a, b, result \in Slots :
        /\ SameRing(a, b) /\ SameRing(a, result) /\ result \notin {a, b}
        /\ LET after == poly_add_avx(poly_build, memory, a, b, result)
           IN Called(after, [NoCall EXCEPT !.op = "poly_add_avx", !.this = result,
                                           !.x = contents(memory, a),
                                           !.y = contents(memory, b),
                                           !.z = contents(memory, result),
                                           !.out = contents(after, result)])

\* ring.poly_sub_avx(a, b, result);
PolySubAVX ==
    /\ poly_ops < MaxArithmeticOps
    /\ \E a, b, result \in Slots :
        /\ SameRing(a, b) /\ objs[result].alive /\ result \notin {a, b}
        /\ LET after == poly_sub_avx(poly_build, memory, a, b, result)
           IN Called(after, [NoCall EXCEPT !.op = "poly_sub_avx", !.this = result,
                                           !.x = contents(memory, a),
                                           !.y = contents(memory, b),
                                           !.z = contents(memory, result),
                                           !.out = contents(after, result)])


Init ==
    /\ InitKEM /\ InitNTT /\ InitThreads /\ InitRing /\ InitSamplers /\ InitFactory
    /\ InitMontgomery /\ InitPoly

Next ==
    \/ Keygen
    \/ VerifyOwnKeypair
    \/ VerifyForeignKeypair
    \/ SerializePk
    \/ DeserializePk
    \/ SerializeSk
    \/ DeserializeSk
    \/ Encapsulate
    \/ TamperCiphertext
    \/ SerializeCt
    \/ DeserializeCt
    \/ Decapsulate
    \/ DecapsulateFault
    \/ DecapsulateAgain
    \/ DestroyPrivateKey

Spec == Init /\ [][Next]_vars

NTTInit ==
    /\ InitKEM /\ kem_level = 128 /\ InitNTT /\ InitThreads /\ InitRing /\ InitSamplers
    /\ InitFactory /\ InitMontgomery /\ InitPoly

NTTNext ==
    \/ ConstructEngine
    \/ ForwardNTT
    \/ InverseNTT
    \/ MultiplyPolys
    \/ NTTFault
    \/ ConvertColors
    \/ WrapCoefficient

NTTSpec == NTTInit /\ [][NTTNext]_vars

ThreadNext ==
    \/ \E t \in Threads : ThreadKeygen(t)
    \/ \E t \in Threads : ThreadEncapsulate(t)

ThreadSpec == Init /\ [][ThreadNext]_vars

RingInit == NTTInit

RingNext ==
    \/ ConstructParameters
    \/ ConstructKEM
    \/ ConstructRingOperations
    \/ EncodeMessage
    \/ DecodeMessage

RingSpec == RingInit /\ [][RingNext]_vars

SamplerNext ==
    \/ ConstructSampler
    \/ InitSampler
    \/ SqueezeSampler
    \/ SampleBinomial
    \/ BeginUniform
    \/ UniformStep
    \/ BeginMatrixEntry
    \/ MatrixStep
    \/ AssignMatrixEntry

SamplerSpec == NTTInit /\ [][SamplerNext]_vars

\* the thread inside a loop keeps running: the loop makes its next turn
SamplerLiveSpec == SamplerSpec /\ WF_smp_turn(LoopTurn)

FactoryInit ==
    /\ InitKEM /\ kem_level = 128 /\ InitNTT /\ InitThreads /\ InitRing /\ InitSamplers
    /\ fac_build \in Builds /\ FactoryIdle
    /\ InitMontgomery /\ InitPoly

FactoryNext ==
    \/ CreateEngine
    \/ CallTransform
    \/ RunStageLoops
    \/ FallbackCall
    \/ StackExhausted

\* the thread inside a transform keeps running
FactorySpec ==
    /\ FactoryInit /\ [][FactoryNext]_vars
    /\ WF_fac_vars(RunStageLoops \/ FallbackCall \/ StackExhausted)

(***************************************************************************)
(* Properties of the ColorKEM session.                                     *)
(***************************************************************************)
\* byte lengths serialize() produces for the parameter set p
PublicKeyBytes(p) == 32 + 4 * p.module_rank
CiphertextBytes(p) == 4 * (p.module_rank + 1) + 4

\* decapsulate(pk, sk, ct) has returned on the instance that made pk, sk and ct
HonestDecapsulation ==
    pc = "decapsulated" /\ dec_status = "returned" /\ ct_origin = "honest"
    /\ dec_level = kem_level

\* C1: honest-run correctness.  At every security level, for (pk, sk) from keygen
\* and (ct, ss) from encapsulate(pk), decapsulate(pk, sk, ct) returns a value whose
\* to_precise_value() equals ss.to_precise_value().
C1_HonestRunCorrect ==
    HonestDecapsulation => to_precise_value(recovered) = to_precise_value(ss)

\* C2: tamper sensitivity.  Decapsulating the honest ciphertext with bit 0 of
\* byte 0 flipped returns a key different from the encapsulated key.
C2_TamperChangesKey ==
    (pc = "decapsulated" /\ dec_status = "returned" /\ ct_origin = "tampered"
     /\ dec_level = kem_level)
    => to_precise_value(recovered) # to_precise_value(ss)

\* C3: decapsulation is total.  Whatever the byte lengths of secret_data and
\* ciphertext_data, decapsulate returns a value and never reads outside the parsed
\* secret-key or ciphertext vectors.
C3_DecapsulateTotal ==
    pc = "decapsulated" => (dec_status = "returned" /\ ~dec_oob)

\* C4: deserialising a public key or a ciphertext whose length is not the one the
\* parameter set fixes reports a failure; a level-192 ciphertext never reaches a
\* level-128 decapsulate.
C4_LengthMismatchReported ==
    /\ (pc = "pk_restored" /\ Len(rx_bytes) # PublicKeyBytes(params_)) => deser_error
    /\ (pc = "delivered" /\ ct_origin = "deserialized"
        /\ Len(rx_bytes) # CiphertextBytes(params_)) => deser_error
    /\ ~(pc = "decapsulated" /\ ct_origin = "deserialized"
         /\ kem_level = 192 /\ dec_level = 128)

\* C5: ciphertext serialization round-trip.  deserialize(ct.serialize()) has the
\* ciphertext_data and the shared_secret_hint of ct.
C5_CiphertextRoundTrip ==
    (pc = "delivered" /\ ct_origin = "deserialized" /\ rx_bytes = wire)
    => (ct_in.ciphertext_data = ct.ciphertext_data
        /\ ct_in.shared_secret_hint = ct.shared_secret_hint)

\* C6: key serialization round-trip.  ColorPublicKey::deserialize(pk.serialize())
\* has the seed and public_data of pk, and ColorPrivateKey::deserialize(sk.serialize())
\* has the secret_data of sk.
C6_KeyRoundTrip ==
    /\ (pc = "pk_restored" /\ rx_bytes = wire)
       => (pk_rx.seed = pk.seed /\ pk_rx.public_data = pk.public_data)
    /\ (pc = "sk_restored" /\ rx_bytes = wire)
       => sk_rx.secret_data = sk.secret_data

\* a public key of keygen() went through serialize() and deserialize() unchanged
C6_Witness ==
    /\ pc = "pk_restored" /\ rx_bytes = wire
    /\ Len(wire) = PublicKeyBytes(params_)
    /\ pk_rx.public_data = pk.public_data /\ Len(pk.public_data) = 4 * params_.module_rank

\* C7: verify_keypair(pk, sk) is true for the pair of one keygen call and false
\* when sk comes from a different keygen call than pk (same parameter set).
C7_VerifyKeypairExact ==
    /\ (pc = "verified" /\ verify_with = "own") => verify_result
    /\ (pc = "verified" /\ verify_with = "previous"
        /\ prev_sk.secret_data # sk.secret_data) => ~verify_result

(***************************************************************************)
(* Properties of the colour wrapper and of the NTT engines.                *)
(***************************************************************************)
\* C8: the colour wrapper is lossless.  from_precise_value(v).to_precise_value() = v
\* for every v in [0, q), and convert_colors_to_uint32(convert_uint32_to_colors(p)) = p
\* for every polynomial p with coefficients in [0, q).
C8_ColorWrapperLossless ==
    /\ ntt_pc = "wrapped" => color_out = color_in
    /\ ntt_pc = "converted" => poly = to_words(poly_a)

\* C9: NTT round-trip.  ntt_forward followed by ntt_inverse of the same engine
\* (scalar, AVX, colour) yields exactly the polynomial it started from.
C9_NTTRoundTrip ==
    ntt_pc = "inverse" => poly = to_words(poly_a)

\* C10: ring multiplication.  multiply(a, b) is the schoolbook product of a and b
\* modulo x^n + 1 and modulo q; for a = 1 + x^(n-1) and b = x the coefficient of
\* x^0 is q - 1.
C10_MultiplyIsRingProduct ==
    ntt_pc = "multiplied"
    => /\ poly = to_words(schoolbook_negacyclic(poly_a, poly_b, Q))
       /\ (poly_a = [i \in 1..ntt_n |-> PolyCoeff(1, i - 1, ntt_n)]
           /\ poly_b = [i \in 1..ntt_n |-> PolyCoeff(2, i - 1, ntt_n)])
          => poly[1] = W32(Q - 1)

(***************************************************************************)
(* Properties of encapsulation and of the matrix expansion.                *)
(***************************************************************************)
\* the colours of the c1 part of the ciphertext encapsulate returned
c1_of(c) == SubSeq(bytes_to_colors(c.ciphertext_data), 1, params_.module_rank)

\* C11: in encapsulation c1 = A^T * r + e1 mod q, with A the matrix regenerated from
\* the seed of the public key and r, e1 the vectors just sampled.
C11_C1UsesTransposedMatrix ==
    ct_origin # "none"
    => c1_of(ct) = [i \in 1..params_.module_rank |->
                      from_precise_value(
                        (to_precise_value(matrix_transpose_vector_mul(encaps_A, enc_r, params_)[i])
                         + to_precise_value(enc_e1[i])) % params_.modulus)]

C13_ThreadsIndependent ==
    \A t \in Threads :
       /\ th_keys[t] # NoKeys
          => th_keys[t] = solo_keygen(params_, th_keys[t].public_key.seed)
       /\ th_ct[t] # NoEncapsulation
          => th_ct[t] = solo_encapsulate(params_, th_keys[t].public_key)

(***************************************************************************)
(* Properties of RingOperations and of the parameter sets.                 *)
(***************************************************************************)
\* C14: message round-trip.  For every 32-byte message M,
\* decode_poly_to_message(encode_message_to_poly(M)) = M.
C14_MessageRoundTrip ==
    ring_pc = "decoded" => msg_out = message

\* C15: constructing CLWEParameters with a security level other than 128, 192 or
\* 256 reports a configuration error at construction, and no parameter object with
\* an unknown security level is handed to ColorKEM.
C15_UnknownLevelRejected ==
    /\ (ring_pc # "start" /\ req_level \notin Levels) => config_error
    /\ ring_pc = "kem" => ring_params.security_level \in Levels

\* p is a prime number
is_prime(p) == p > 1 /\ \A d \in 2..(p - 1) : d * d > p \/ p % d # 0

\* C16: the parameter sets of levels 128, 192, 256 have n = 256, k = 2, 3, 4, and an
\* odd prime q < 2^16 with q = 1 (mod 2n); the root of unity each NTT engine derives
\* from q and n is a primitive 2n-th root of unity modulo q (its n-th power is -1).
C16_ParameterSetInvariant ==
    (ring_pc # "start" /\ req_level \in Levels)
    => LET n == ring_params.degree
           q == ring_params.modulus
       IN /\ n = 256
          /\ ring_params.module_rank = (req_level \div 64)
          /\ q % 2 = 1 /\ is_prime(q) /\ q < 65536
          /\ q % (2 * n) = 1
          /\ \A kind \in EngineKinds :
                mod_pow(NTTEngine(kind, q, n).zetas[2], n, q) = q - 1

(***************************************************************************)
(* Properties of secret handling.                                          *)
(***************************************************************************)
\* C17: when a ColorPrivateKey is destroyed, its secret bytes are overwritten with
\* zeros before the memory is released.
C17_PrivateKeyZeroised ==
    pc = "destroyed" => \A i \in 1..Len(released) : released[i] = 0

\* C18: decapsulation is constant-time in secrets.  decrypt_message takes no branch
\* that depends on the secret key, on v = c2 - <s, c1> or on the decoded bit: for a
\* given ciphertext every secret key leads through the same conditional outcomes.
C18_DecapsulateConstantTime ==
    (pc = "decapsulated" /\ dec_status = "returned" /\ ~dec_oob /\ dec_level = kem_level)
    => \A seed \in RandSeeds :
          decrypt_message_branches(generate_secret_key(seed, params_),
                                   bytes_to_colors(ct_in.ciphertext_data), params_, NoColor)
          = dec_branches

\* C19: for every (ct, ss) of encapsulate, ct.shared_secret_hint is the 4-byte
\* big-endian encoding of ss and bytes_to_color_secret(ct.shared_secret_hint) = ss:
\* the shared secret is readable from the ciphertext alone.
C19_HintRevealsSecret ==
    ct_origin # "none"
    => /\ ct.shared_secret_hint = <<0, 0, 0, to_precise_value(ss)>>
       /\ bytes_to_color_secret(ct.shared_secret_hint) = ss

\* encapsulate drew the shared secret 1 and the ciphertext carries it in its hint
C19_Witness ==
    /\ pc = "encapsulated"
    /\ to_precise_value(ss) = 1
    /\ ct.shared_secret_hint = <<0, 0, 0, 1>>

C21_AVXStaysInBuffer ==
    (engine_kind = "avx" /\ ntt_pc \in {"forward", "inverse", "multiplied"})
    => /\ \A i \in avx_vector_indexes(engine_) : i < ntt_n \div 8
       /\ \E junk \in JunkWords : behind = words_behind("avx", ntt_n, junk)

(***************************************************************************)
(* Properties of the samplers and of the matrix expansion loop.            *)
(***************************************************************************)
\* C22: matrix-A expansion assigns per coefficient: the entry A[i][j] retains all n
\* accepted coefficients, so a sequence of accepted coefficients that differs from
\* the one sampled in any one position gives a different entry.
C22_EntryKeepsAllCoefficients ==
    smp_pc = "entry"
    => \A pos \in 1..Len(smp_coeffs) :
          matrix_entry_assign([smp_coeffs EXCEPT ![pos] = (@ + 1) % DefaultParameters.modulus],
                              DefaultParameters.degree) # smp_entry

\* C23: sample_binomial_coefficient(eta) returns a centered-binomial sample, the sum
\* of eta stream bits minus the sum of eta further stream bits, which lies in
\* [-eta, eta].
C23_BinomialInRange ==
    smp_last = "binomial"
    => smp_sample \in (0 - DefaultParameters.eta)..DefaultParameters.eta

\* C24: rejection sampling terminates.  A sample_uniform call in progress returns a
\* value below its modulus, and the loop of generate_matrix_A ends with n accepted
\* coefficients, each below q.
C24_RejectionTerminates ==
    /\ (smp_pc = "uniform")
          ~> (smp_pc = "ready" /\ smp_last = "uniform" /\ smp_sample < smp_modulus)
    /\ (smp_pc = "matrix")
          ~> (/\ smp_pc = "entry"
              /\ Len(smp_coeffs) = DefaultParameters.degree
              /\ \A c \in 1..Len(smp_coeffs) : smp_coeffs[c] < DefaultParameters.modulus)

\* sample_uniform(3329) returned after rejecting a candidate
C24_Witness ==
    /\ smp_pc = "ready" /\ smp_last = "uniform"
    /\ smp_modulus = 3329 /\ smp_rejected
    /\ smp_sample < 3329

\* C26: re-initialisation gives a fresh context.  Whatever was called on a sampler
\* before, the bytes it produces after init(seed) are the bytes a newly constructed
\* sampler produces after init(seed).
C26_ReinitIsFresh ==
    smp_pc \in {"ready", "uniform"}
    => smp_squeezed
       = sampler_squeeze(smp_kind, sampler_init(smp_kind, sampler_new(smp_kind), smp_seed),
                         Len(smp_squeezed)).out

\* a SHAKE128Sampler that had produced bytes was initialised again and squeezed
C26_Witness ==
    /\ smp_pc = "ready" /\ smp_kind = "shake128"
    /\ smp_prior > 0
    /\ smp_last = "squeeze"
    /\ Len(smp_squeezed) = 3

OwnershipInit ==
    /\ InitKEM /\ kem_level = 128 /\ InitNTT /\ InitThreads /\ InitRing /\ InitSamplers
    /\ InitFactory /\ InitMontgomery
    /\ poly_build \in PolyBuilds /\ PolyIdle

\* the polynomials of one ring, constructed and loaded with copy_from
PolyInit ==
    /\ InitKEM /\ kem_level = 128 /\ InitNTT /\ InitThreads /\ InitRing /\ InitSamplers
    /\ InitFactory /\ InitMontgomery
    /\ poly_build \in PolyBuilds
    /\ objs = [o \in Slots |-> [alive |-> TRUE, degree |-> 8, modulus |-> Q, coeffs |-> o]]
    /\ heap \in [Slots -> {[data |-> coeffs, frees |-> 0] : coeffs \in PolyInputs(8)}]
    /\ poly_fault = FALSE
    /\ poly_last = NoCall
    /\ poly_ops = 0

\* arithmetic on polynomials
PolyNext ==
    \/ AddAVX
    \/ SubAVX
    \/ ScalarMulAVX
    \/ PolyAddAVX
    \/ PolySubAVX

PolySpec == PolyInit /\ [][PolyNext]_vars

\* the lifetime of polynomial objects
OwnershipNext ==
    \/ Construct
    \/ CopyConstruct
    \/ MoveConstruct
    \/ CopyAssign
    \/ MoveAssign
    \/ Destroy
    \/ CopyFrom

OwnershipSpec == OwnershipInit /\ [][OwnershipNext]_vars

MontgomeryNext == MontgomeryReduce

MontgomerySpec == NTTInit /\ [][MontgomeryNext]_vars

(***************************************************************************)
(* Properties of the engine factory.                                       *)
(***************************************************************************)
\* C25: for every SIMDSupport value passed to create_ntt_engine, ntt_forward and
\* ntt_inverse of the returned engine terminate; where the instruction set asked
\* for is not compiled in, the NEON and RVV engines fall back to the scalar
\* transform and return.
C25_TransformsReturn ==
    (fac_pc = "running") ~> (fac_pc = "returned" /\ fac_stack = <<>>)

(***************************************************************************)
(* Properties of Montgomery reduction.                                     *)
(***************************************************************************)
\* C27: for val = a * b with a, b in [0, q), montgomery_reduce of the engines and
\* of utils.hpp returns r with r * R = val (mod q) and r < q, where R = 2^32.
C27_MontgomeryReduces ==
    mont_pc = "reduced" =>
        /\ mont_r[2] = 0 /\ mont_r[1] < Q
        /\ (W32_mod(mont_r, Q) * montgomery_r(Q)) % Q = (mont_a * mont_b) % Q

(***************************************************************************)
(* Properties of AVXPolynomial arithmetic and ownership.                   *)
(***************************************************************************)
\* every lane is a residue: a uint32_t below q
InRange(lanes) == \A i \in 1..Len(lanes) : lanes[i][2] = 0 /\ lanes[i][1] < Q

\* the exact result of the operation on residues x and y
exact_lane(op, x, y, scalar) ==
    CASE op = "add_avx" -> (x[1] + y[1]) % Q
      [] op = "sub_avx" -> (x[1] + Q - y[1]) % Q
      [] OTHER          -> (x[1] * W32_mod(scalar, Q)) % Q

\* C28: after add_avx, sub_avx or scalar_mul_avx (any 32-bit scalar) on polynomials
\* with coefficients in [0, q), every coefficient of the result is in [0, q) and is
\* the exact sum, difference or product mod q, with HAVE_AVX2 and without.
C28_ArithmeticExact ==
    (/\ poly_last.op \in {"add_avx", "sub_avx", "scalar_mul_avx"}
     /\ InRange(poly_last.x)
     /\ InRange(poly_last.y))
    => /\ InRange(poly_last.out)
       /\ \A i \in 1..Len(poly_last.out) :
             poly_last.out[i][1] =
                 exact_lane(poly_last.op, poly_last.x[i],
                            IF poly_last.op = "scalar_mul_avx" THEN W32(0) ELSE poly_last.y[i],
                            poly_last.scalar)

\* C29, on the build where add_avx is exact (no HAVE_AVX2): poly_add_avx(a, b, result)
\* leaves a + b mod q in result, whatever result held before.
C29_PolyAddSetsSum ==
    (/\ poly_last.op = "poly_add_avx"
     /\ poly_build = "fallback"
     /\ InRange(poly_last.x) /\ InRange(poly_last.y) /\ InRange(poly_last.z))
    => \A i \in 1..Len(poly_last.out) :
           poly_last.out[i] = W32((poly_last.x[i][1] + poly_last.y[i][1]) % Q)

\* the objects that hold buffer b
Owners(b) == {o \in Slots : objs[o].alive /\ objs[o].coeffs = b}

\* no call went outside a buffer; a buffer is freed at most once, has exactly one
\* owner until it is freed and none after
ExclusiveOwnership ==
    /\ ~poly_fault
    /\ \A b \in 1..Len(heap) :
          /\ heap[b].frees <= 1
          /\ heap[b].frees = 0 => Cardinality(Owners(b)) = 1
          /\ heap[b].frees = 1 => Owners(b) = {}
    /\ \A o \in Slots : objs[o].coeffs \in 0..Len(heap)

\* the coefficients an object shows
coeffs_of(o) == contents(memory, o)

\* copy_from on one object changes the coefficients of no other object
WriteStaysLocal ==
    poly_last'.op = "copy_from"
    => \A o \in Slots \ {poly_last'.this} :
           (objs[o].alive /\ objs'[o].alive) => coeffs_of(o)' = coeffs_of(o)

\* C30: after any sequence of constructions, copy and move constructions, copy and
\* move assignments (also from moved-from objects) and destructions, no two live
\* polynomials share a buffer, every buffer is freed exactly once, and writing to
\* one polynomial leaves the others unchanged.
C30_ExclusiveOwnership == []ExclusiveOwnership /\ [][WriteStaysLocal]_vars

\* a copy assignment from a moved-from object has released the buffer of its target
C30_Witness ==
    /\ poly_last.op = "assign"
    /\ objs[poly_last.this].alive
    /\ objs[poly_last.this].degree = 0
    /\ \E b \in 1..Len(heap) : heap[b].frees = 1
    /\ \E b \in 1..Len(heap) : heap[b].frees = 0

====
